---- MODULE Spec2Model ----
(***************************************************************************)
(* Client-side state machines of the code-evaluator frontend:              *)
(*   - the configuration page (challenge form, draft-criterion editor,     *)
(*     add-criteria modal, active toggle) and its API calls;               *)
(*   - the usePolling hook and the rank page built on it.                  *)
(* A React event handler is one atomic step on the component state.  An    *)
(* async handler is split at its await: the step before the await sends a  *)
(* request that records what the handler's closure captured, the backend   *)
(* answers it or the transport fails, and the continuation runs as a       *)
(* separate step with the captured values.  A commit and the effects it    *)
(* schedules are one step.                                                 *)
(***************************************************************************)
EXTENDS Integers, Sequences, FiniteSets, TLC

----------------------------------------------------------------------------
(* Bounds of the model *)

\* longest criteria list the form may hold
MaxCriteria == 2
\* challenges the backend may hold
MaxChallenges == 2
\* updateChallenge requests in flight together
MaxToggles == 1
\* updateChallenge requests in flight together, where the cards are studied on their own
MaxCardToggles == 2

----------------------------------------------------------------------------
(* Strings are sequences of characters *)

SP == " "

\* String.prototype.trim, leading part
RECURSIVE TrimStart(_)
TrimStart(s) ==
  IF s = <<>> THEN s
  ELSE IF Head(s) = SP THEN TrimStart(Tail(s)) ELSE s

\* String.prototype.trim, trailing part
RECURSIVE TrimEnd(_)
TrimEnd(s) ==
  IF s = <<>> THEN s
  ELSE IF s[Len(s)] = SP THEN TrimEnd(SubSeq(s, 1, Len(s) - 1)) ELSE s

\* a trim that removes nothing
Trim_None(s) == s

\* String.prototype.trim
Trim(s) == TrimEnd(TrimStart(s))

\* values a user may type into a criterion name field
CriterionNames == {<<>>, <<SP>>, <<"a">>, <<"b">>}
\* values a user may type into the challenge name field
ChallengeNames == {<<>>, <<SP>>, <<SP, "x">>}

\* draftCriteriaIndex === null
NullIndex == -1
\* togglingChallengeId === null
NullId == 0

----------------------------------------------------------------------------
(* Configuration page: state *)

VARIABLES
  challenges,                  \* Challenge[]
  isChallengeModalOpen,
  isCriteriaModalOpen,
  selectedChallenge,           \* <<>> for null, <<challenge>> otherwise
  criteriaDraft,
  challengeForm,
  loading,
  togglingChallengeId,
  isDraftCriteriaModalOpen,
  draftCriteriaIndex,          \* 0-based, NullIndex for null
  draftCriteriaForm,
  shouldResumeChallengeModal,
  listReqs,                    \* api.listChallenges calls not yet settled
  createReqs,                  \* api.createChallenge calls not yet settled
  addReqs,                     \* api.addCriteria calls not yet settled
  toggleReqs,                  \* api.updateChallenge calls not yet settled
  backend,                     \* the challenges the backend stores
  challengeModalBeforeDraft,   \* history: isChallengeModalOpen just before the draft editor opened
  lastHandler                  \* history: the handler the last step ran, if it is a Recorded one

cfgVars ==
  <<challenges, isChallengeModalOpen, isCriteriaModalOpen, selectedChallenge,
    criteriaDraft, challengeForm, loading, togglingChallengeId,
    isDraftCriteriaModalOpen, draftCriteriaIndex, draftCriteriaForm,
    shouldResumeChallengeModal, listReqs, createReqs, addReqs, toggleReqs,
    backend, challengeModalBeforeDraft, lastHandler>>

----------------------------------------------------------------------------
(* Rank page and usePolling: state *)

VARIABLES
  mounted,                     \* the rank page is mounted
  params,                      \* the challengeId query parameter: <<>> when absent, <<id>> otherwise
  loadedChallenges,            \* the rank page's challenges
  selectedChallengeId,
  rankEntries,
  timers,                      \* intervals registered by usePolling and not cleared
  savedCallback,               \* savedCallback.current: the selectedChallengeId its closure holds
  rankListReqs,                \* api.listChallenges calls of the rank page not yet settled
  rankReqs,                    \* api.getRanking calls not yet settled
  loads,                       \* listChallenges calls issued by the rank page
  pollCalls,                   \* history: invocations of the polling callback
  pollStarts,                  \* history: times polling went from disabled to enabled
  pollPeriods,                 \* history: interval periods elapsed while polling was enabled
  idlePeriods,                 \* history: interval periods elapsed while polling was disabled
  shownSeq,                    \* history: the request whose response rankEntries shows, 0 if none
  maxAppliedSeq,               \* history: the latest-issued request a response of which was applied
  appliedSinceSelect           \* history: a response for the selection was applied since it was made

rankVars ==
  <<mounted, params, loadedChallenges, selectedChallengeId, rankEntries, timers,
    savedCallback, rankListReqs, rankReqs, loads, pollCalls, pollStarts, pollPeriods,
    idlePeriods, shownSeq, maxAppliedSeq, appliedSinceSelect>>

(* The create request as a function of the form: state *)

VARIABLES
  pureForm,                    \* a challenge form
  purePayload                  \* <<>>, or <<the request body handleCreateChallenge sends for it>>

(* The translation function t of the i18n provider: state *)

VARIABLES
  i18nMessages,                \* the message tree of the current locale
  i18nKey,                     \* the key passed to t
  i18nOptions,                 \* the options passed to t: values and fallback, <<>> when absent
  i18nResult                   \* <<>>, or <<what t(key, options) evaluates to>>

i18nVars == <<i18nMessages, i18nKey, i18nOptions, i18nResult>>

\* the variables of the pure functions
pureVars == <<pureForm, purePayload, i18nVars>>

(* Rank page, evaluation details modal: state *)

VARIABLES
  isModalOpen,
  selectedRepositoryId,        \* <<>> for "", a repository id otherwise
  evaluationDetails,
  isLoading,
  detailReqs,                  \* api.getEvaluationHistory calls not yet settled
  detailCalls                  \* getEvaluationHistory calls issued

detailVars ==
  <<isModalOpen, selectedRepositoryId, evaluationDetails, isLoading, detailReqs, detailCalls>>

(* The I18nProvider's locale, local storage, and the API client: state *)

VARIABLES
  storedLocale,                \* localStorage item LOCALE_STORAGE_KEY: <<>> when absent, <<value>>
  navigatorLanguage,           \* window.navigator.language: <<>> when undefined, <<value>>
  locale,                      \* the provider's locale state
  providerPhase,               \* "rendered": first render committed, effects not yet run;
                               \* "updating": setLocaleState(initial) awaits its render; "ready"
  pendingLocale,               \* the value passed to setLocaleState and not yet rendered
  storedAtMount,               \* history: the stored item when the provider mounted
  localeChanges,               \* setLocale calls of the language switcher
  apiCalls,                    \* invocations of api functions, in order of invocation
  httpRequests                 \* HTTP requests the client sent, in order of sending

clientVars ==
  <<storedLocale, navigatorLanguage, locale, providerPhase, pendingLocale, storedAtMount,
    localeChanges, apiCalls, httpRequests>>

(* Home page and challenge repositories page: state *)

VARIABLES
  homeChallenges,              \* the home page's challenges
  selectedId,                  \* the home page's selection, NoSelection for ""
  homeIsLoading,               \* the home page's isLoading
  homeError,                   \* the home page's error: <<>> for null, <<message>> otherwise
  homeReqs,                    \* listChallenges calls of the fetch effect not yet settled
  autoFetches,                 \* history: runs of the fetch effect caused by the automatic selection
  homeSelects,                 \* selections the user made on the home page
  lastCompleted                \* history: "none", or how the call that completed last ended

homeVars ==
  <<homeChallenges, selectedId, homeIsLoading, homeError, homeReqs, autoFetches, homeSelects,
    lastCompleted>>

VARIABLES
  repoChallengeId,             \* challengeId, the route parameter of the repositories page
  repoChallenge,               \* challenge: <<>> for null, <<challenge>> otherwise
  repositories,
  repoModalOpen,               \* the repositories page's isModalOpen
  repoForm,
  loadData,                    \* the Promise.all of loadData: its two calls, <<>> once handled
  addRepoReqs,                 \* api.addRepository calls not yet settled
  storedRepositories,          \* the repositories the backend stores for the challenge
  repoAdds,                    \* addRepository calls made
  lastRepoStep                 \* history: what the last step of the repositories page was

repoVars ==
  <<repoChallengeId, repoChallenge, repositories, repoModalOpen, repoForm, loadData, addRepoReqs,
    storedRepositories, repoAdds, lastRepoStep>>

pagesVars == <<homeVars, repoVars>>

\* the variables outside the two pages' own state
asideVars == <<pureVars, detailVars, clientVars, pagesVars>>

vars == <<cfgVars, rankVars, asideVars>>

createEmptyCriterion ==
  [name |-> <<>>, description |-> <<>>, score_multiplier |-> 1, code_concept |-> <<>>]

EmptyChallengeForm ==
  [name |-> <<>>, description |-> <<>>, expected_outcome |-> <<>>,
   criteria |-> <<>>, active |-> TRUE]

\* the challenge the backend holds when the page is opened
SeedChallenge ==
  [id |-> 1, name |-> <<"s">>, description |-> <<>>, expected_outcome |-> <<>>,
   criteria |-> <<>>, active |-> TRUE]

\* none of the three dialogs covers the page body
NoModalOpen ==
  ~isChallengeModalOpen /\ ~isDraftCriteriaModalOpen /\ ~isCriteriaModalOpen

CfgClientInit ==
  /\ challenges = <<>>
  /\ isChallengeModalOpen = FALSE
  /\ isCriteriaModalOpen = FALSE
  /\ selectedChallenge = <<>>
  /\ criteriaDraft = createEmptyCriterion
  /\ challengeForm = EmptyChallengeForm
  /\ loading = FALSE
  /\ togglingChallengeId = NullId
  /\ isDraftCriteriaModalOpen = FALSE
  /\ draftCriteriaIndex = NullIndex
  /\ draftCriteriaForm = createEmptyCriterion
  /\ shouldResumeChallengeModal = FALSE
  /\ listReqs = <<[status |-> "sent", response |-> <<>>]>>   \* the mount effect
  /\ createReqs = <<>>
  /\ addReqs = <<>>
  /\ toggleReqs = <<>>
  /\ challengeModalBeforeDraft = FALSE
  /\ lastHandler = "other"

CfgInit ==
  /\ CfgClientInit
  /\ backend = <<SeedChallenge>>


----------------------------------------------------------------------------
(* Helpers *)

\* the sequence s without its i-th element (1-based)
RemoveAt(s, i) == SubSeq(s, 1, i - 1) \o SubSeq(s, i + 1, Len(s))

\* a request collection with entry i replaced
Settle(reqs, i, status, response) ==
  [reqs EXCEPT ![i] = [@ EXCEPT !.status = status, !.response = response]]

\* the filter without trim: (criterion) => criterion.name
RECURSIVE FilterNamed_NoTrim(_)
FilterNamed_NoTrim(cs) ==
  IF cs = <<>> THEN <<>>
  ELSE IF Head(cs).name # <<>>
       THEN <<Head(cs)>> \o FilterNamed_NoTrim(Tail(cs))
       ELSE FilterNamed_NoTrim(Tail(cs))

\* Array.prototype.filter((criterion) => criterion.name.trim())
RECURSIVE FilterNamed(_)
FilterNamed(cs) ==
  IF cs = <<>> THEN <<>>
  ELSE IF Trim(Head(cs).name) # <<>>
       THEN <<Head(cs)>> \o FilterNamed(Tail(cs))
       ELSE FilterNamed(Tail(cs))

\* Array.prototype.filter((_, idx) => idx !== index), index 0-based
RemoveIndex(cs, index) ==
  IF index + 1 \in DOMAIN cs THEN RemoveAt(cs, index + 1) ELSE cs

\* the body sent by handleCreateChallenge
CreatePayload(form) ==
  [name |-> form.name, description |-> form.description,
   expected_outcome |-> form.expected_outcome,
   criteria |-> FilterNamed(form.criteria), active |-> form.active]

\* the updater with the index taken as 1-based
SavedCriteria_OffByOne(prev, index, form) ==
  IF index = NullIndex THEN Append(prev, form)
  ELSE IF index \in DOMAIN prev THEN [prev EXCEPT ![index] = form]
  ELSE prev

\* the updater of handleSaveDraftCriterion, index 0-based
SavedCriteria(prev, index, form) ==
  IF index = NullIndex THEN Append(prev, form)
  ELSE IF index + 1 \in DOMAIN prev THEN [prev EXCEPT ![index + 1] = form]
  ELSE prev

\* a delete that drops the last entry of the list
DeletedCriteria_Last(prev, index) ==
  IF index = NullIndex \/ prev = <<>> THEN prev ELSE SubSeq(prev, 1, Len(prev) - 1)

\* the criteria handleDeleteDraftCriterion leaves: untouched for a null index,
\* removeDraftCriterionAtIndex(index) otherwise
DeletedCriteria(prev, index) ==
  IF index = NullIndex THEN prev ELSE RemoveIndex(prev, index)

----------------------------------------------------------------------------
(* Configuration page: the draft-criterion editor *)

\* the handlers that lastHandler records by name; any other step records "other"
Recorded ==
  {"CloseDraftEditor", "handleSaveDraftCriterion", "handleDeleteDraftCriterion",
   "CreateRejected"}

\* a step of the configuration page: it leaves the other parts of the model alone
Handled(handler) ==
  /\ lastHandler' = (IF handler \in Recorded THEN handler ELSE "other")
  /\ UNCHANGED <<rankVars, asideVars>>

draftVars == <<isDraftCriteriaModalOpen, draftCriteriaIndex, draftCriteriaForm,
               shouldResumeChallengeModal, isChallengeModalOpen>>
reqVars == <<listReqs, createReqs, addReqs, toggleReqs, backend>>
criteriaModalVars == <<isCriteriaModalOpen, selectedChallenge, criteriaDraft>>

\* The state a handler leaves in the five draft-editor variables, as a record:
\* the setState calls of one handler are batched and the last call on a variable wins.
openDraftModalWithState(nextIndex, nextForm) ==
  [draftCriteriaIndex |-> nextIndex,
   draftCriteriaForm |-> nextForm,
   shouldResumeChallengeModal |-> isChallengeModalOpen,
   isChallengeModalOpen |-> (IF isChallengeModalOpen THEN FALSE ELSE isChallengeModalOpen),
   isDraftCriteriaModalOpen |-> TRUE]

\* closeDraftCriteriaModal without the branch that resumes the challenge modal
closeDraftCriteriaModal_NoResume(seen) ==
  [isDraftCriteriaModalOpen |-> FALSE,
   draftCriteriaIndex |-> NullIndex,
   draftCriteriaForm |-> createEmptyCriterion,
   isChallengeModalOpen |-> isChallengeModalOpen,
   shouldResumeChallengeModal |-> FALSE]

\* closeDraftCriteriaModal as run by a closure that saw shouldResumeChallengeModal = seen
closeDraftCriteriaModal(seen) ==
  [isDraftCriteriaModalOpen |-> FALSE,
   draftCriteriaIndex |-> NullIndex,
   draftCriteriaForm |-> createEmptyCriterion,
   isChallengeModalOpen |-> (IF seen THEN TRUE ELSE isChallengeModalOpen),
   shouldResumeChallengeModal |-> (IF seen THEN FALSE ELSE shouldResumeChallengeModal)]

\* commit of the five draft-editor variables
SetDraftVars(u) ==
  /\ isDraftCriteriaModalOpen' = u.isDraftCriteriaModalOpen
  /\ draftCriteriaIndex' = u.draftCriteriaIndex
  /\ draftCriteriaForm' = u.draftCriteriaForm
  /\ isChallengeModalOpen' = u.isChallengeModalOpen
  /\ shouldResumeChallengeModal' = u.shouldResumeChallengeModal

\* the header button: setIsChallengeModalOpen(true)
OpenChallengeModal ==
  /\ NoModalOpen
  /\ isChallengeModalOpen' = TRUE
  /\ UNCHANGED <<challenges, criteriaModalVars, challengeForm, loading, togglingChallengeId,
                 isDraftCriteriaModalOpen, draftCriteriaIndex, draftCriteriaForm,
                 shouldResumeChallengeModal, reqVars, challengeModalBeforeDraft>>
  /\ Handled("OpenChallengeModal")

\* the challenge form's name input
SetChallengeName(v) ==
  /\ isChallengeModalOpen
  /\ challengeForm' = [challengeForm EXCEPT !.name = v]
  /\ UNCHANGED <<challenges, criteriaModalVars, loading, togglingChallengeId, draftVars,
                 reqVars, challengeModalBeforeDraft>>
  /\ Handled("SetChallengeName")

\* the challenge form's active checkbox
SetChallengeActive(b) ==
  /\ isChallengeModalOpen
  /\ challengeForm' = [challengeForm EXCEPT !.active = b]
  /\ UNCHANGED <<challenges, criteriaModalVars, loading, togglingChallengeId, draftVars,
                 reqVars, challengeModalBeforeDraft>>
  /\ Handled("SetChallengeActive")

openNewDraftCriterion ==
  /\ isChallengeModalOpen
  /\ SetDraftVars(openDraftModalWithState(NullIndex, createEmptyCriterion))
  /\ challengeModalBeforeDraft' = isChallengeModalOpen
  /\ UNCHANGED <<challenges, criteriaModalVars, challengeForm, loading, togglingChallengeId,
                 reqVars>>
  /\ Handled("openNewDraftCriterion")

openDraftCriterion(index) ==
  /\ isChallengeModalOpen
  /\ index + 1 \in DOMAIN challengeForm.criteria
  /\ SetDraftVars(openDraftModalWithState(index, challengeForm.criteria[index + 1]))
  /\ challengeModalBeforeDraft' = isChallengeModalOpen
  /\ UNCHANGED <<challenges, criteriaModalVars, challengeForm, loading, togglingChallengeId,
                 reqVars>>
  /\ Handled("openDraftCriterion")

\* the delete button of an entry of the form's criteria list
removeDraftCriterionAtIndex(index) ==
  /\ isChallengeModalOpen
  /\ index + 1 \in DOMAIN challengeForm.criteria
  /\ challengeForm' = [challengeForm EXCEPT !.criteria = RemoveIndex(@, index)]
  /\ UNCHANGED <<challenges, criteriaModalVars, loading, togglingChallengeId, draftVars,
                 reqVars, challengeModalBeforeDraft>>
  /\ Handled("removeDraftCriterionAtIndex")

\* the draft editor's name input
SetDraftName(v) ==
  /\ isDraftCriteriaModalOpen
  /\ draftCriteriaForm' = [draftCriteriaForm EXCEPT !.name = v]
  /\ UNCHANGED <<challenges, criteriaModalVars, challengeForm, loading, togglingChallengeId,
                 isDraftCriteriaModalOpen, draftCriteriaIndex, shouldResumeChallengeModal,
                 isChallengeModalOpen, reqVars, challengeModalBeforeDraft>>
  /\ Handled("SetDraftName")

\* the draft editor's close button and its onClose
CloseDraftEditor ==
  /\ isDraftCriteriaModalOpen
  /\ SetDraftVars(closeDraftCriteriaModal(shouldResumeChallengeModal))
  /\ UNCHANGED <<challenges, criteriaModalVars, challengeForm, loading, togglingChallengeId,
                 reqVars, challengeModalBeforeDraft>>
  /\ Handled("CloseDraftEditor")

\* a save that also posts the draft to the backend as a criterion of the first challenge
handleSaveDraftCriterion_Persisting ==
  /\ isDraftCriteriaModalOpen
  /\ Trim(draftCriteriaForm.name) # <<>>
  /\ draftCriteriaIndex = NullIndex => Len(challengeForm.criteria) < MaxCriteria
  /\ challengeForm' =
       [challengeForm EXCEPT
          !.criteria = SavedCriteria(@, draftCriteriaIndex, draftCriteriaForm)]
  /\ SetDraftVars(closeDraftCriteriaModal(shouldResumeChallengeModal))
  /\ addReqs' = Append(addReqs, [challenge_id |-> 1, draft |-> draftCriteriaForm,
                                 status |-> "sent", response |-> <<>>])
  /\ UNCHANGED <<challenges, criteriaModalVars, loading, togglingChallengeId, listReqs,
                 createReqs, toggleReqs, backend, challengeModalBeforeDraft>>
  /\ Handled("handleSaveDraftCriterion")

handleSaveDraftCriterion ==
  /\ isDraftCriteriaModalOpen
  /\ Trim(draftCriteriaForm.name) # <<>>          \* isPrimaryDisabled
  /\ draftCriteriaIndex = NullIndex => Len(challengeForm.criteria) < MaxCriteria
  /\ IF Trim(draftCriteriaForm.name) = <<>>
     THEN UNCHANGED <<challengeForm, draftVars>>
     ELSE /\ challengeForm' =
               [challengeForm EXCEPT
                  !.criteria = SavedCriteria(@, draftCriteriaIndex, draftCriteriaForm)]
          /\ SetDraftVars(closeDraftCriteriaModal(shouldResumeChallengeModal))
  /\ UNCHANGED <<challenges, criteriaModalVars, loading, togglingChallengeId, reqVars,
                 challengeModalBeforeDraft>>
  /\ Handled("handleSaveDraftCriterion")

handleDeleteDraftCriterion ==
  /\ isDraftCriteriaModalOpen
  /\ draftCriteriaIndex # NullIndex               \* the button is rendered for an existing entry
  /\ challengeForm' =
       [challengeForm EXCEPT !.criteria = DeletedCriteria(@, draftCriteriaIndex)]
  /\ SetDraftVars(closeDraftCriteriaModal(shouldResumeChallengeModal))
  /\ UNCHANGED <<challenges, criteriaModalVars, loading, togglingChallengeId, reqVars,
                 challengeModalBeforeDraft>>
  /\ Handled("handleDeleteDraftCriterion")

handleCloseChallengeModal ==
  /\ isChallengeModalOpen
  /\ shouldResumeChallengeModal' = FALSE
  /\ isDraftCriteriaModalOpen' = FALSE
  /\ draftCriteriaIndex' = NullIndex
  /\ draftCriteriaForm' = createEmptyCriterion
  /\ isChallengeModalOpen' = FALSE
  /\ challengeForm' = EmptyChallengeForm
  /\ UNCHANGED <<challenges, criteriaModalVars, loading, togglingChallengeId, reqVars,
                 challengeModalBeforeDraft>>
  /\ Handled("handleCloseChallengeModal")


----------------------------------------------------------------------------
(* Configuration page: createChallenge *)

uiVars == <<isChallengeModalOpen, isCriteriaModalOpen, selectedChallenge, criteriaDraft,
            challengeForm, isDraftCriteriaModalOpen, draftCriteriaIndex, draftCriteriaForm,
            shouldResumeChallengeModal>>

\* handleCreateChallenge up to its await; resume is the shouldResumeChallengeModal
\* that the closure of this render holds
handleCreateChallenge ==
  /\ isChallengeModalOpen
  /\ ~loading                                      \* isPrimaryDisabled
  /\ Len(backend) + Len(createReqs) < MaxChallenges
  /\ IF Trim(challengeForm.name) = <<>>
     THEN UNCHANGED <<loading, createReqs>>
     ELSE /\ loading' = TRUE
          /\ createReqs' = Append(createReqs,
               [payload |-> CreatePayload(challengeForm),
                resume |-> shouldResumeChallengeModal,
                status |-> "sent", response |-> <<>>])
  /\ UNCHANGED <<challenges, uiVars, togglingChallengeId, listReqs, addReqs, toggleReqs,
                 backend, challengeModalBeforeDraft>>
  /\ Handled("handleCreateChallenge")

\* POST /challenges: the stored challenge, its criteria given ids
CreatedChallenge(payload, id) ==
  [id |-> id, name |-> payload.name, description |-> payload.description,
   expected_outcome |-> payload.expected_outcome,
   criteria |-> [k \in DOMAIN payload.criteria |->
                   [id |-> <<id, k>>, challenge_id |-> id,
                    name |-> payload.criteria[k].name,
                    description |-> payload.criteria[k].description,
                    score_multiplier |-> payload.criteria[k].score_multiplier,
                    code_concept |-> payload.criteria[k].code_concept]],
   active |-> payload.active]

BackendCreates(i) ==
  /\ i \in DOMAIN createReqs
  /\ createReqs[i].status = "sent"
  /\ LET created == CreatedChallenge(createReqs[i].payload, Len(backend) + 1) IN
       /\ backend' = Append(backend, created)
       /\ createReqs' = Settle(createReqs, i, "ok", <<created>>)
  /\ UNCHANGED <<challenges, uiVars, loading, togglingChallengeId, listReqs, addReqs,
                 toggleReqs, challengeModalBeforeDraft>>
  /\ Handled("BackendCreates")

CreateFails(i) ==
  /\ i \in DOMAIN createReqs
  /\ createReqs[i].status = "sent"
  /\ createReqs' = Settle(createReqs, i, "err", <<>>)
  /\ UNCHANGED <<challenges, uiVars, loading, togglingChallengeId, listReqs, addReqs,
                 toggleReqs, backend, challengeModalBeforeDraft>>
  /\ Handled("CreateFails")

\* handleCreateChallenge after its await, the request fulfilled
CreateResolved(i) ==
  /\ i \in DOMAIN createReqs
  /\ createReqs[i].status = "ok"
  /\ challenges' = Append(challenges, createReqs[i].response[1])
  /\ SetDraftVars([closeDraftCriteriaModal(createReqs[i].resume)
                     EXCEPT !.isChallengeModalOpen = FALSE])
  /\ challengeForm' = EmptyChallengeForm
  /\ loading' = FALSE
  /\ createReqs' = RemoveAt(createReqs, i)
  /\ UNCHANGED <<criteriaModalVars, togglingChallengeId, listReqs, addReqs, toggleReqs,
                 backend, challengeModalBeforeDraft>>
  /\ Handled("CreateResolved")

\* the catch branch closing the challenge modal as the success branch does
CreateRejected_Closing(i) ==
  /\ i \in DOMAIN createReqs
  /\ createReqs[i].status = "err"
  /\ SetDraftVars([closeDraftCriteriaModal(createReqs[i].resume)
                     EXCEPT !.isChallengeModalOpen = FALSE])
  /\ challengeForm' = EmptyChallengeForm
  /\ loading' = FALSE
  /\ createReqs' = RemoveAt(createReqs, i)
  /\ UNCHANGED <<challenges, criteriaModalVars, togglingChallengeId, listReqs, addReqs,
                 toggleReqs, backend, challengeModalBeforeDraft>>
  /\ Handled("CreateRejected")

\* handleCreateChallenge after its await, the request rejected
CreateRejected(i) ==
  /\ i \in DOMAIN createReqs
  /\ createReqs[i].status = "err"
  /\ loading' = FALSE
  /\ createReqs' = RemoveAt(createReqs, i)
  /\ UNCHANGED <<challenges, uiVars, togglingChallengeId, listReqs, addReqs, toggleReqs,
                 backend, challengeModalBeforeDraft>>
  /\ Handled("CreateRejected")


----------------------------------------------------------------------------
(* Configuration page: addCriteria *)

\* the card's "add criteria" button
handleOpenCriteriaModal(k) ==
  /\ NoModalOpen
  /\ k \in DOMAIN challenges
  /\ selectedChallenge' = <<[id |-> challenges[k].id, name |-> challenges[k].name]>>
  /\ criteriaDraft' = createEmptyCriterion
  /\ isCriteriaModalOpen' = TRUE
  /\ UNCHANGED <<challenges, challengeForm, loading, togglingChallengeId, draftVars,
                 reqVars, challengeModalBeforeDraft>>
  /\ Handled("handleOpenCriteriaModal")

\* the add-criteria modal's name input
SetCriteriaDraftName(v) ==
  /\ isCriteriaModalOpen
  /\ criteriaDraft' = [criteriaDraft EXCEPT !.name = v]
  /\ UNCHANGED <<challenges, isCriteriaModalOpen, selectedChallenge, challengeForm, loading,
                 togglingChallengeId, draftVars, reqVars, challengeModalBeforeDraft>>
  /\ Handled("SetCriteriaDraftName")

\* the add-criteria modal's onClose
CloseCriteriaModal ==
  /\ isCriteriaModalOpen
  /\ isCriteriaModalOpen' = FALSE
  /\ UNCHANGED <<challenges, selectedChallenge, criteriaDraft, challengeForm, loading,
                 togglingChallengeId, draftVars, reqVars, challengeModalBeforeDraft>>
  /\ Handled("CloseCriteriaModal")

\* criteria a challenge of the list holds, 0 when the list does not hold it
CriteriaCount(id) ==
  IF \E k \in DOMAIN backend : backend[k].id = id
  THEN Len(backend[CHOOSE k \in DOMAIN backend : backend[k].id = id].criteria)
  ELSE 0

\* handleAddCriteria behind a primary button that loading does not disable
handleAddCriteria_NotDisabled ==
  /\ isCriteriaModalOpen
  /\ IF selectedChallenge = <<>> \/ Trim(criteriaDraft.name) = <<>>
     THEN UNCHANGED <<loading, addReqs>>
     ELSE /\ CriteriaCount(selectedChallenge[1].id) + Len(addReqs) < MaxCriteria
          /\ loading' = TRUE
          /\ addReqs' = Append(addReqs,
               [challenge_id |-> selectedChallenge[1].id, draft |-> criteriaDraft,
                status |-> "sent", response |-> <<>>])
  /\ UNCHANGED <<challenges, uiVars, togglingChallengeId, listReqs, createReqs, toggleReqs,
                 backend, challengeModalBeforeDraft>>
  /\ Handled("handleAddCriteria")

\* handleAddCriteria up to its await; the closure holds selectedChallenge
handleAddCriteria ==
  /\ isCriteriaModalOpen
  /\ ~loading                                      \* isPrimaryDisabled
  /\ IF selectedChallenge = <<>> \/ Trim(criteriaDraft.name) = <<>>
     THEN UNCHANGED <<loading, addReqs>>
     ELSE /\ CriteriaCount(selectedChallenge[1].id) + Len(addReqs) < MaxCriteria
          /\ loading' = TRUE
          /\ addReqs' = Append(addReqs,
               [challenge_id |-> selectedChallenge[1].id, draft |-> criteriaDraft,
                status |-> "sent", response |-> <<>>])
  /\ UNCHANGED <<challenges, uiVars, togglingChallengeId, listReqs, createReqs, toggleReqs,
                 backend, challengeModalBeforeDraft>>
  /\ Handled("handleAddCriteria")

\* POST /criteria: the stored criterion
CreatedCriterion(req, k) ==
  [id |-> <<req.challenge_id, k>>, challenge_id |-> req.challenge_id,
   name |-> req.draft.name, description |-> req.draft.description,
   score_multiplier |-> req.draft.score_multiplier,
   code_concept |-> req.draft.code_concept]

BackendAddsCriteria(i) ==
  /\ i \in DOMAIN addReqs
  /\ addReqs[i].status = "sent"
  /\ LET created == CreatedCriterion(addReqs[i], CriteriaCount(addReqs[i].challenge_id) + 1) IN
       /\ backend' = [k \in DOMAIN backend |->
                        IF backend[k].id = addReqs[i].challenge_id
                        THEN [backend[k] EXCEPT !.criteria = Append(@, created)]
                        ELSE backend[k]]
       /\ addReqs' = Settle(addReqs, i, "ok", <<created>>)
  /\ UNCHANGED <<challenges, uiVars, loading, togglingChallengeId, listReqs, createReqs,
                 toggleReqs, challengeModalBeforeDraft>>
  /\ Handled("BackendAddsCriteria")

AddFails(i) ==
  /\ i \in DOMAIN addReqs
  /\ addReqs[i].status = "sent"
  /\ addReqs' = Settle(addReqs, i, "err", <<>>)
  /\ UNCHANGED <<challenges, uiVars, loading, togglingChallengeId, listReqs, createReqs,
                 toggleReqs, backend, challengeModalBeforeDraft>>
  /\ Handled("AddFails")

\* a continuation that appends to the challenge selected when the response arrives
AddResolved_CurrentSelection(i) ==
  /\ i \in DOMAIN addReqs
  /\ addReqs[i].status = "ok"
  /\ selectedChallenge # <<>>
  /\ challenges' = [k \in DOMAIN challenges |->
                      IF challenges[k].id = selectedChallenge[1].id
                      THEN [challenges[k] EXCEPT !.criteria = Append(@, addReqs[i].response[1])]
                      ELSE challenges[k]]
  /\ isCriteriaModalOpen' = FALSE
  /\ loading' = FALSE
  /\ addReqs' = RemoveAt(addReqs, i)
  /\ UNCHANGED <<selectedChallenge, criteriaDraft, challengeForm, togglingChallengeId,
                 draftVars, listReqs, createReqs, toggleReqs, backend,
                 challengeModalBeforeDraft>>
  /\ Handled("AddResolved")

\* handleAddCriteria after its await, the request fulfilled
AddResolved(i) ==
  /\ i \in DOMAIN addReqs
  /\ addReqs[i].status = "ok"
  /\ challenges' = [k \in DOMAIN challenges |->
                      IF challenges[k].id = addReqs[i].challenge_id
                      THEN [challenges[k] EXCEPT !.criteria = Append(@, addReqs[i].response[1])]
                      ELSE challenges[k]]
  /\ isCriteriaModalOpen' = FALSE
  /\ loading' = FALSE
  /\ addReqs' = RemoveAt(addReqs, i)
  /\ UNCHANGED <<selectedChallenge, criteriaDraft, challengeForm, togglingChallengeId,
                 draftVars, listReqs, createReqs, toggleReqs, backend,
                 challengeModalBeforeDraft>>
  /\ Handled("AddResolved")

\* handleAddCriteria after its await, the request rejected
AddRejected(i) ==
  /\ i \in DOMAIN addReqs
  /\ addReqs[i].status = "err"
  /\ loading' = FALSE
  /\ addReqs' = RemoveAt(addReqs, i)
  /\ UNCHANGED <<challenges, uiVars, togglingChallengeId, listReqs, createReqs, toggleReqs,
                 backend, challengeModalBeforeDraft>>
  /\ Handled("AddRejected")

----------------------------------------------------------------------------
(* Configuration page: updateChallenge (the active toggle) *)

\* handleToggleChallengeActive up to its await; the checkbox of card k, with at most
\* inFlight requests unsettled
handleToggleChallengeActive(k, inFlight) ==
  /\ NoModalOpen
  /\ k \in DOMAIN challenges
  /\ togglingChallengeId # challenges[k].id        \* disabled={isToggling}
  /\ Len(toggleReqs) < inFlight
  /\ togglingChallengeId' = challenges[k].id
  /\ toggleReqs' = Append(toggleReqs,
       [id |-> challenges[k].id, active |-> ~challenges[k].active,
        status |-> "sent", response |-> <<>>])
  /\ UNCHANGED <<challenges, uiVars, loading, listReqs, createReqs, addReqs, backend,
                 challengeModalBeforeDraft>>
  /\ Handled("handleToggleChallengeActive")

\* PATCH /challenges/{id}: the stored challenge after the update
BackendUpdates(i) ==
  /\ i \in DOMAIN toggleReqs
  /\ toggleReqs[i].status = "sent"
  /\ \E k \in DOMAIN backend :
       /\ backend[k].id = toggleReqs[i].id
       /\ backend' = [backend EXCEPT ![k].active = toggleReqs[i].active]
       /\ toggleReqs' = Settle(toggleReqs, i, "ok", <<backend'[k]>>)
  /\ UNCHANGED <<challenges, uiVars, loading, togglingChallengeId, listReqs, createReqs,
                 addReqs, challengeModalBeforeDraft>>
  /\ Handled("BackendUpdates")

ToggleFails(i) ==
  /\ i \in DOMAIN toggleReqs
  /\ toggleReqs[i].status = "sent"
  /\ toggleReqs' = Settle(toggleReqs, i, "err", <<>>)
  /\ UNCHANGED <<challenges, uiVars, loading, togglingChallengeId, listReqs, createReqs,
                 addReqs, backend, challengeModalBeforeDraft>>
  /\ Handled("ToggleFails")

\* handleToggleChallengeActive after its await, the request fulfilled
ToggleResolved(i) ==
  /\ i \in DOMAIN toggleReqs
  /\ toggleReqs[i].status = "ok"
  /\ challenges' = [k \in DOMAIN challenges |->
                      IF challenges[k].id = toggleReqs[i].id
                      THEN [challenges[k] EXCEPT !.active = toggleReqs[i].response[1].active]
                      ELSE challenges[k]]
  /\ togglingChallengeId' = NullId
  /\ toggleReqs' = RemoveAt(toggleReqs, i)
  /\ UNCHANGED <<uiVars, loading, listReqs, createReqs, addReqs, backend,
                 challengeModalBeforeDraft>>
  /\ Handled("ToggleResolved")

\* handleToggleChallengeActive after its await, the request rejected
ToggleRejected(i) ==
  /\ i \in DOMAIN toggleReqs
  /\ toggleReqs[i].status = "err"
  /\ togglingChallengeId' = NullId
  /\ toggleReqs' = RemoveAt(toggleReqs, i)
  /\ UNCHANGED <<challenges, uiVars, loading, listReqs, createReqs, addReqs, backend,
                 challengeModalBeforeDraft>>
  /\ Handled("ToggleRejected")

----------------------------------------------------------------------------
(* Configuration page: the mount effect's listChallenges *)

\* GET /challenges
BackendLists(i) ==
  /\ i \in DOMAIN listReqs
  /\ listReqs[i].status = "sent"
  /\ listReqs' = Settle(listReqs, i, "ok", <<backend>>)
  /\ UNCHANGED <<challenges, uiVars, loading, togglingChallengeId, createReqs, addReqs,
                 toggleReqs, backend, challengeModalBeforeDraft>>
  /\ Handled("BackendLists")

ListFails(i) ==
  /\ i \in DOMAIN listReqs
  /\ listReqs[i].status = "sent"
  /\ listReqs' = Settle(listReqs, i, "err", <<>>)
  /\ UNCHANGED <<challenges, uiVars, loading, togglingChallengeId, createReqs, addReqs,
                 toggleReqs, backend, challengeModalBeforeDraft>>
  /\ Handled("ListFails")

\* .then(setChallenges)
ListResolved(i) ==
  /\ i \in DOMAIN listReqs
  /\ listReqs[i].status = "ok"
  /\ challenges' = listReqs[i].response[1]
  /\ listReqs' = RemoveAt(listReqs, i)
  /\ UNCHANGED <<uiVars, loading, togglingChallengeId, createReqs, addReqs, toggleReqs,
                 backend, challengeModalBeforeDraft>>
  /\ Handled("ListResolved")

\* .catch((err) => console.error(err))
ListRejected(i) ==
  /\ i \in DOMAIN listReqs
  /\ listReqs[i].status = "err"
  /\ listReqs' = RemoveAt(listReqs, i)
  /\ UNCHANGED <<challenges, uiVars, loading, togglingChallengeId, createReqs, addReqs,
                 toggleReqs, backend, challengeModalBeforeDraft>>
  /\ Handled("ListRejected")

----------------------------------------------------------------------------
(* Bounds of the rank page model *)

\* listChallenges calls the rank page may issue (mount and query changes)
MaxLoads == 2
\* invocations of the polling callback by interval ticks
MaxPolls == 2
\* interval periods that may elapse
MaxPeriods == 2

\* selectedChallengeId === ""
NoSelection == 0
\* an id that no challenge has, as a stale link carries it
UnknownId == 9

\* values of the challengeId query parameter: absent, empty, a challenge id, a stale id
ParamValues == {<<>>, <<NoSelection>>, <<1>>, <<2>>, <<UnknownId>>}

\* polling that is enabled whatever is selected
Enabled_Always(id) == TRUE

\* Boolean(selectedChallengeId)
Enabled(id) == id # NoSelection

\* polling runs: the page is mounted and passes enabled = true to usePolling
PollEnabled == mounted /\ Enabled(selectedChallengeId)

\* The RankEntry the backend derives for a repository; total_score is <<>> for null,
\* <<score>> otherwise.  unscored is true iff total_score is null.
BackendRankEntry(repositoryId, name, totalScore) ==
  [repository_id |-> repositoryId, repository_name |-> name, total_score |-> totalScore,
   status |-> (IF totalScore = <<>> THEN "not_evaluated" ELSE "evaluated"),
   unscored |-> (totalScore = <<>>)]

\* GET /evaluations/rank/{challengeId}: the entries of the challenge's repositories
\* one repository evaluated, one not yet
RankingOf(id) ==
  <<BackendRankEntry(<<id, 1>>, <<"r">>, <<id>>), BackendRankEntry(<<id, 2>>, <<"q">>, <<>>)>>

\* the challenge whose repositories a list of entries ranks, NoSelection for no entries
EntriesChallenge(entries) ==
  IF entries = <<>> THEN NoSelection ELSE entries[1].repository_id[1]

\* the polling callback skipping a tick while a getRanking call is unsettled
RankingCallback_Backpressure(id, seq) ==
  IF ~Enabled(id) \/ rankReqs # <<>> THEN <<>>
  ELSE <<[challenge_id |-> id, seq |-> seq, status |-> "sent", response |-> <<>>]>>

\* the polling callback of the rank page, held by a closure that saw selectedChallengeId = id:
\* the getRanking calls it issues, numbered seq
RankingCallback(id, seq) ==
  IF ~Enabled(id) THEN <<>>
  ELSE <<[challenge_id |-> id, seq |-> seq, status |-> "sent", response |-> <<>>]>>

\* the interval effect without its cleanup
IntervalEffect_NoCleanup(wasEnabled, isEnabled, registered) ==
  IF wasEnabled = isEnabled THEN [timers |-> registered, tick |-> FALSE]
  ELSE IF isEnabled THEN [timers |-> registered + 1, tick |-> TRUE]
  ELSE [timers |-> registered, tick |-> FALSE]

\* an interval effect that also depends on the callback: it runs again at every commit
\* of an enabled page, clearing and registering the interval and calling tick()
IntervalEffect_Restart(wasEnabled, isEnabled, registered) ==
  IF wasEnabled /\ isEnabled THEN [timers |-> registered, tick |-> TRUE]
  ELSE IF wasEnabled = isEnabled THEN [timers |-> registered, tick |-> FALSE]
  ELSE LET cleared == IF wasEnabled THEN registered - 1 ELSE registered IN
       IF isEnabled THEN [timers |-> cleared + 1, tick |-> TRUE]
       ELSE [timers |-> cleared, tick |-> FALSE]

\* usePolling's interval effect at a commit: the intervals left registered, and whether
\* tick() ran.  The effect runs when enabled changed (intervalMs never does); its cleanup
\* clears the interval the previous run registered.
IntervalEffect(wasEnabled, isEnabled, registered) ==
  IF wasEnabled = isEnabled THEN [timers |-> registered, tick |-> FALSE]
  ELSE LET cleared == IF wasEnabled THEN registered - 1 ELSE registered IN
       IF isEnabled THEN [timers |-> cleared + 1, tick |-> TRUE]
       ELSE [timers |-> cleared, tick |-> FALSE]

\* a first effect that leaves the ref as it was
SavedCallbackEffect_Stale(id) == savedCallback

\* usePolling's first effect at a commit: savedCallback.current = callback
SavedCallbackEffect(id) == id

\* A commit of the rank page that leaves selectedChallengeId = id, with the effects of
\* usePolling: first savedCallback.current is set, then the interval effect runs.
Commit(id) ==
  LET eff == IntervalEffect(Enabled(selectedChallengeId), Enabled(id), timers)
      saved == SavedCallbackEffect(id)
      issued == IF eff.tick THEN RankingCallback(saved, pollCalls + 1) ELSE <<>>
  IN /\ selectedChallengeId' = id
     /\ savedCallback' = saved
     /\ timers' = eff.timers
     /\ pollCalls' = (IF eff.tick THEN pollCalls + 1 ELSE pollCalls)
     /\ rankReqs' = rankReqs \o issued
     /\ pollStarts' = (IF ~Enabled(selectedChallengeId) /\ Enabled(id)
                       THEN pollStarts + 1 ELSE pollStarts)
     /\ appliedSinceSelect' = (IF id = selectedChallengeId THEN appliedSinceSelect ELSE FALSE)

rankGhosts == <<pollPeriods, idlePeriods, shownSeq, maxAppliedSeq>>

RankInit ==
  /\ mounted = TRUE
  /\ params \in ParamValues
  /\ loadedChallenges = <<>>
  /\ selectedChallengeId = NoSelection
  /\ rankEntries = <<>>
  /\ timers = 0
  /\ savedCallback = NoSelection
  /\ rankListReqs = <<[param |-> params, status |-> "sent", response |-> <<>>]>>
  /\ rankReqs = <<>>
  /\ loads = 1
  /\ pollCalls = 0
  /\ pollStarts = 0
  /\ pollPeriods = 0
  /\ idlePeriods = 0
  /\ shownSeq = 0
  /\ maxAppliedSeq = 0
  /\ appliedSinceSelect = FALSE

----------------------------------------------------------------------------
(* Rank page: loading the challenges *)

\* the query string changes: the mount effect runs again
ParamsChange(p) ==
  /\ mounted
  /\ p # params
  /\ loads < MaxLoads
  /\ params' = p
  /\ loads' = loads + 1
  /\ rankListReqs' = Append(rankListReqs, [param |-> p, status |-> "sent", response |-> <<>>])
  /\ UNCHANGED <<mounted, loadedChallenges, selectedChallengeId, rankEntries, timers,
                 savedCallback, rankReqs, pollCalls, pollStarts, appliedSinceSelect,
                 rankGhosts, cfgVars, asideVars>>

\* GET /challenges
BackendListsForRank(i) ==
  /\ i \in DOMAIN rankListReqs
  /\ rankListReqs[i].status = "sent"
  /\ rankListReqs' = Settle(rankListReqs, i, "ok", <<backend>>)
  /\ UNCHANGED <<mounted, params, loadedChallenges, selectedChallengeId, rankEntries, timers,
                 savedCallback, rankReqs, loads, pollCalls, pollStarts, appliedSinceSelect,
                 rankGhosts, cfgVars, asideVars>>

RankListFails(i) ==
  /\ i \in DOMAIN rankListReqs
  /\ rankListReqs[i].status = "sent"
  /\ rankListReqs' = Settle(rankListReqs, i, "err", <<>>)
  /\ UNCHANGED <<mounted, params, loadedChallenges, selectedChallengeId, rankEntries, timers,
                 savedCallback, rankReqs, loads, pollCalls, pollStarts, appliedSinceSelect,
                 rankGhosts, cfgVars, asideVars>>

\* params.get("challengeId") ?? data[0]?.id ?? ""
InitialSelection(param, data) ==
  IF param # <<>> THEN param[1]
  ELSE IF data # <<>> THEN data[1].id
  ELSE NoSelection

\* the .then of the mount effect; nothing is left to update once the page is unmounted
RankListResolved(i) ==
  /\ i \in DOMAIN rankListReqs
  /\ rankListReqs[i].status = "ok"
  /\ rankListReqs' = RemoveAt(rankListReqs, i)
  /\ IF mounted
     THEN /\ loadedChallenges' = rankListReqs[i].response[1]
          /\ Commit(InitialSelection(rankListReqs[i].param, rankListReqs[i].response[1]))
     ELSE UNCHANGED <<loadedChallenges, selectedChallengeId, savedCallback, timers, pollCalls,
                      rankReqs, pollStarts, appliedSinceSelect>>
  /\ UNCHANGED <<mounted, params, rankEntries, loads, rankGhosts, cfgVars, asideVars>>

\* the .catch of the mount effect
RankListRejected(i) ==
  /\ i \in DOMAIN rankListReqs
  /\ rankListReqs[i].status = "err"
  /\ rankListReqs' = RemoveAt(rankListReqs, i)
  /\ UNCHANGED <<mounted, params, loadedChallenges, selectedChallengeId, rankEntries, timers,
                 savedCallback, rankReqs, loads, pollCalls, pollStarts, appliedSinceSelect,
                 rankGhosts, cfgVars, asideVars>>

\* the Select's onChange={setSelectedChallengeId}: one of the listed options
SelectChallenge(k) ==
  /\ mounted
  /\ k \in DOMAIN loadedChallenges
  /\ loadedChallenges[k].id # selectedChallengeId
  /\ Commit(loadedChallenges[k].id)
  /\ UNCHANGED <<mounted, params, loadedChallenges, rankEntries, rankListReqs, loads,
                 rankGhosts, cfgVars, asideVars>>

----------------------------------------------------------------------------
(* Rank page: polling the ranking *)

\* the calls n interval ticks issue, the first numbered seq
RECURSIVE TickCalls(_, _, _)
TickCalls(n, id, seq) ==
  IF n = 0 THEN <<>> ELSE RankingCallback(id, seq) \o TickCalls(n - 1, id, seq + 1)

\* One interval period elapses: each registered interval fires tick once, and tick
\* invokes savedCallback.current.
IntervalElapses ==
  /\ pollPeriods + idlePeriods < MaxPeriods
  /\ timers > 0 => pollCalls + timers <= MaxPolls
  /\ pollCalls' = pollCalls + timers
  /\ rankReqs' = rankReqs \o TickCalls(timers, savedCallback, pollCalls + 1)
  /\ pollPeriods' = (IF PollEnabled THEN pollPeriods + 1 ELSE pollPeriods)
  /\ idlePeriods' = (IF PollEnabled THEN idlePeriods ELSE idlePeriods + 1)
  /\ UNCHANGED <<mounted, params, loadedChallenges, selectedChallengeId, rankEntries, timers,
                 savedCallback, rankListReqs, loads, pollStarts, shownSeq, maxAppliedSeq,
                 appliedSinceSelect, cfgVars, asideVars>>

BackendRanks(i) ==
  /\ i \in DOMAIN rankReqs
  /\ rankReqs[i].status = "sent"
  /\ rankReqs' = Settle(rankReqs, i, "ok",
                        <<[challenge_id |-> rankReqs[i].challenge_id,
                           entries |-> RankingOf(rankReqs[i].challenge_id)]>>)
  /\ UNCHANGED <<mounted, params, loadedChallenges, selectedChallengeId, rankEntries, timers,
                 savedCallback, rankListReqs, loads, pollCalls, pollStarts,
                 appliedSinceSelect, rankGhosts, cfgVars, asideVars>>

RankFails(i) ==
  /\ i \in DOMAIN rankReqs
  /\ rankReqs[i].status = "sent"
  /\ rankReqs' = Settle(rankReqs, i, "err", <<>>)
  /\ UNCHANGED <<mounted, params, loadedChallenges, selectedChallengeId, rankEntries, timers,
                 savedCallback, rankListReqs, loads, pollCalls, pollStarts,
                 appliedSinceSelect, rankGhosts, cfgVars, asideVars>>

\* the .then discarding the response of a challenge that is no longer selected
AppliedEntries_Guarded(current, selected, response) ==
  IF response.challenge_id = selected THEN response.entries ELSE current

\* a .then that drops its response while another getRanking call is unanswered
AppliedEntries_WhenIdle(current, selected, response) ==
  IF \E j \in DOMAIN rankReqs : rankReqs[j].status = "sent" THEN current ELSE response.entries

\* the .then storing the entries with the unscored badge cleared
AppliedEntries_Unflagged(current, selected, response) ==
  [k \in DOMAIN response.entries |-> [response.entries[k] EXCEPT !.unscored = FALSE]]

\* what .then((data) => setRankEntries(data.entries)) leaves in rankEntries
AppliedEntries(current, selected, response) == response.entries

\* the .then of the polling callback; nothing is left to update once the page is unmounted
RankResolved(i) ==
  /\ i \in DOMAIN rankReqs
  /\ rankReqs[i].status = "ok"
  /\ rankReqs' = RemoveAt(rankReqs, i)
  /\ IF mounted
     THEN /\ rankEntries' = AppliedEntries(rankEntries, selectedChallengeId,
                                           rankReqs[i].response[1])
          /\ shownSeq' = rankReqs[i].seq
          /\ maxAppliedSeq' = (IF rankReqs[i].seq > maxAppliedSeq
                               THEN rankReqs[i].seq ELSE maxAppliedSeq)
          /\ appliedSinceSelect' =
               (appliedSinceSelect \/ rankReqs[i].challenge_id = selectedChallengeId)
     ELSE UNCHANGED <<rankEntries, shownSeq, maxAppliedSeq, appliedSinceSelect>>
  /\ UNCHANGED <<mounted, params, loadedChallenges, selectedChallengeId, timers,
                 savedCallback, rankListReqs, loads, pollCalls, pollStarts, pollPeriods,
                 idlePeriods, cfgVars, asideVars>>

\* the .catch of the polling callback
RankRejected(i) ==
  /\ i \in DOMAIN rankReqs
  /\ rankReqs[i].status = "err"
  /\ rankReqs' = RemoveAt(rankReqs, i)
  /\ UNCHANGED <<mounted, params, loadedChallenges, selectedChallengeId, rankEntries, timers,
                 savedCallback, rankListReqs, loads, pollCalls, pollStarts,
                 appliedSinceSelect, rankGhosts, cfgVars, asideVars>>

\* the page is left: the cleanup of the interval effect runs
Unmount ==
  /\ mounted
  /\ mounted' = FALSE
  /\ timers' = IntervalEffect(Enabled(selectedChallengeId), FALSE, timers).timers
  /\ UNCHANGED <<params, loadedChallenges, selectedChallengeId, rankEntries, savedCallback,
                 rankListReqs, rankReqs, loads, pollCalls, pollStarts, appliedSinceSelect,
                 rankGhosts, cfgVars, asideVars>>

----------------------------------------------------------------------------
(* Rank page: the evaluation details modal *)

\* getEvaluationHistory calls that may be issued
MaxDetailCalls == 2

\* selectedRepositoryId === ""
NoRepository == <<>>

\* GET /evaluations/repository/{challengeId}/{repositoryId}: data.evaluations
HistoryOf(challengeId, repositoryId) ==
  <<[id |-> <<repositoryId, 1>>, challenge_id |-> challengeId,
     repository_id |-> repositoryId, state |-> "evaluated"]>>

DetailInit ==
  /\ isModalOpen = FALSE
  /\ selectedRepositoryId = NoRepository
  /\ evaluationDetails = <<>>
  /\ isLoading = FALSE
  /\ detailReqs = <<>>
  /\ detailCalls = 0

\* openEvaluationModal up to its await, from the button of row k of the table; the
\* closure holds selectedChallengeId.  The open modal's overlay covers the table.
openEvaluationModal(k) ==
  /\ mounted
  /\ ~isModalOpen
  /\ k \in DOMAIN rankEntries
  /\ detailCalls < MaxDetailCalls
  /\ IF ~Enabled(selectedChallengeId)
     THEN UNCHANGED detailVars
     ELSE /\ selectedRepositoryId' = rankEntries[k].repository_id
          /\ isModalOpen' = TRUE
          /\ isLoading' = TRUE
          /\ detailReqs' = Append(detailReqs,
                                  [challenge_id |-> selectedChallengeId,
                                   repository_id |-> rankEntries[k].repository_id,
                                   status |-> "sent", response |-> <<>>])
          /\ detailCalls' = detailCalls + 1
          /\ UNCHANGED evaluationDetails
  /\ UNCHANGED <<cfgVars, rankVars, pureVars, clientVars, pagesVars>>

\* the Modal's onClose and its secondary action: setIsModalOpen(false)
CloseEvaluationModal ==
  /\ mounted
  /\ isModalOpen
  /\ isModalOpen' = FALSE
  /\ UNCHANGED <<selectedRepositoryId, evaluationDetails, isLoading, detailReqs, detailCalls,
                 cfgVars, rankVars, pureVars, clientVars, pagesVars>>

BackendHistory(i) ==
  /\ i \in DOMAIN detailReqs
  /\ detailReqs[i].status = "sent"
  /\ detailReqs' = Settle(detailReqs, i, "ok",
                          <<HistoryOf(detailReqs[i].challenge_id, detailReqs[i].repository_id)>>)
  /\ UNCHANGED <<isModalOpen, selectedRepositoryId, evaluationDetails, isLoading, detailCalls,
                 cfgVars, rankVars, pureVars, clientVars, pagesVars>>

HistoryFails(i) ==
  /\ i \in DOMAIN detailReqs
  /\ detailReqs[i].status = "sent"
  /\ detailReqs' = Settle(detailReqs, i, "err", <<>>)
  /\ UNCHANGED <<isModalOpen, selectedRepositoryId, evaluationDetails, isLoading, detailCalls,
                 cfgVars, rankVars, pureVars, clientVars, pagesVars>>

\* openEvaluationModal after its await: setEvaluationDetails(evaluations), finally
DetailResolved(i) ==
  /\ i \in DOMAIN detailReqs
  /\ detailReqs[i].status = "ok"
  /\ detailReqs' = RemoveAt(detailReqs, i)
  /\ IF mounted
     THEN /\ evaluationDetails' = detailReqs[i].response[1]
          /\ isLoading' = FALSE
     ELSE UNCHANGED <<evaluationDetails, isLoading>>
  /\ UNCHANGED <<isModalOpen, selectedRepositoryId, detailCalls, cfgVars, rankVars, pureVars, clientVars, pagesVars>>

\* openEvaluationModal after its await: catch, finally
DetailRejected(i) ==
  /\ i \in DOMAIN detailReqs
  /\ detailReqs[i].status = "err"
  /\ detailReqs' = RemoveAt(detailReqs, i)
  /\ isLoading' = (IF mounted THEN FALSE ELSE isLoading)
  /\ UNCHANGED <<isModalOpen, selectedRepositoryId, evaluationDetails, detailCalls,
                 cfgVars, rankVars, pureVars, clientVars, pagesVars>>

----------------------------------------------------------------------------
(* i18n: resolveMessage, formatMessage and t, on JavaScript values *)

\* JavaScript values: a string, an object (a MessageTree), a number, undefined
Str(text) == [type |-> "string", text |-> text, entries |-> <<>>, num |-> 0]
Obj(entries) == [type |-> "object", text |-> <<>>, entries |-> entries, num |-> 0]
Num(n) == [type |-> "number", text |-> <<>>, entries |-> <<>>, num |-> n]
Undefined == [type |-> "undefined", text |-> <<>>, entries |-> <<>>, num |-> 0]
\* the evaluation ended in a TypeError
TypeError == [type |-> "TypeError", text |-> <<>>, entries |-> <<>>, num |-> 0]

\* the position of the first occurrence of the two characters c c in s at or after
\* position from, 0 if there is none
RECURSIVE FirstPair(_, _, _)
FirstPair(s, c, from) ==
  IF from + 1 > Len(s) THEN 0
  ELSE IF s[from] = c /\ s[from + 1] = c THEN from
  ELSE FirstPair(s, c, from + 1)

\* key.split(".")
RECURSIVE SplitDots(_)
SplitDots(s) ==
  IF \A i \in DOMAIN s : s[i] # "."
  THEN <<s>>
  ELSE LET dot == CHOOSE i \in DOMAIN s : s[i] = "." /\ \A j \in 1..(i - 1) : s[j] # "."
       IN <<SubSeq(s, 1, dot - 1)>> \o SplitDots(SubSeq(s, dot + 1, Len(s)))

\* the reducer of resolveMessage
ResolveStep(acc, segment) ==
  IF acc.type = "undefined" THEN Undefined
  ELSE IF acc.type = "string" THEN Undefined
  ELSE IF segment \in DOMAIN acc.entries THEN acc.entries[segment]
  ELSE Undefined

RECURSIVE Reduce(_, _)
Reduce(acc, segments) ==
  IF segments = <<>> THEN acc
  ELSE Reduce(ResolveStep(acc, Head(segments)), Tail(segments))

\* resolveMessage: the cast "as string | undefined" changes no value
resolveMessage(messages, key) == Reduce(messages, SplitDots(key))

\* String(replacement)
DigitChars == <<"0", "1", "2", "3", "4", "5", "6", "7", "8", "9">>
RECURSIVE Digits(_)
Digits(n) ==
  IF n < 10 THEN <<DigitChars[n + 1]>>
  ELSE Digits(n \div 10) \o <<DigitChars[(n % 10) + 1]>>
StringOf(v) == IF v.type = "number" THEN Digits(v.num) ELSE v.text

\* the replacer of formatMessage for one token
Replacement(values, token) ==
  LET trimmed == Trim(token) IN
    IF trimmed \in DOMAIN values THEN StringOf(values[trimmed]) ELSE <<>>

\* template.replace(/\{\{(.*?)\}\}/g, replacer): leftmost match, shortest token
RECURSIVE ReplaceTokens(_, _)
ReplaceTokens(s, values) ==
  LET open == FirstPair(s, "{", 1)
      close == IF open = 0 THEN 0 ELSE FirstPair(s, "}", open + 2)
  IN IF open = 0 \/ close = 0 THEN s
     ELSE SubSeq(s, 1, open - 1)
            \o Replacement(values, SubSeq(s, open + 2, close - 1))
            \o ReplaceTokens(SubSeq(s, close + 2, Len(s)), values)

\* formatMessage; values is <<>> when not passed, <<the map>> otherwise.  A template
\* that is no string has no replace method.
formatMessage(template, values) ==
  IF values = <<>> THEN template
  ELSE IF template.type = "string" THEN Str(ReplaceTokens(template.text, values[1]))
  ELSE TypeError

\* t
Translate(messages, key, options) ==
  LET resolved == resolveMessage(messages, key)
      fallback == IF options.fallback # <<>> THEN Str(options.fallback[1]) ELSE Str(key)
      template == IF resolved.type = "undefined" THEN fallback ELSE resolved
  IN formatMessage(template, options.values)

\* message trees, keys and options t is tried on
EmptyMap == [k \in {} |-> Undefined]
Greeting == <<"X", " ", "{", "{", "n", "}", "}">>
MessageTrees ==
  {Obj(EmptyMap),
   Obj([k \in {<<"a">>} |-> Str(<<"Y">>)]),
   Obj([k \in {<<"a">>} |-> Obj([j \in {<<"b">>} |-> Str(Greeting)])]),
   Obj([k \in {<<"a">>, <<"m">>} |->
          IF k = <<"a">> THEN Obj([j \in {<<"b">>} |-> Str(Greeting)]) ELSE Str(<<"M">>)])}
TranslationKeys ==
  {<<>>, <<"a">>, <<"m">>, <<"a", ".">>, <<".">>, <<"a", ".", "b">>,
   <<"a", ".", "b", ".", "c">>,
   <<"m", "i", "s", "s", "i", "n", "g", ".", "k", "e", "y">>}
ValueMaps ==
  {<<>>, <<EmptyMap>>, <<[k \in {<<"n">>} |-> Num(5)]>>, <<[k \in {<<"n">>} |-> Str(<<"v">>)]>>}
Fallbacks == {<<>>, <<<<>>>>, <<<<"f">>>>}

I18nInit ==
  /\ i18nMessages \in MessageTrees
  /\ i18nKey \in TranslationKeys
  /\ i18nOptions \in [values : ValueMaps, fallback : Fallbacks]
  /\ i18nResult = <<>>

\* a component calls t(key, options)
CallT ==
  /\ i18nResult = <<>>
  /\ i18nResult' = <<Translate(i18nMessages, i18nKey, i18nOptions)>>
  /\ UNCHANGED <<i18nMessages, i18nKey, i18nOptions, pureForm, purePayload,
                 cfgVars, rankVars, detailVars, clientVars, pagesVars>>

\* longest template formatMessage is tried on
MaxTemplateLen == 6

\* the characters of those templates: the delimiters, a token character, whitespace
TemplateChars == {"{", "}", "n", SP}

\* the strings of at most n characters of TemplateChars
RECURSIVE Templates(_)
Templates(n) ==
  IF n = 0 THEN {<<>>}
  ELSE LET shorter == Templates(n - 1) IN
       shorter \cup {Append(t, c) : t \in shorter, c \in TemplateChars}

\* t called on a key that resolves to a drawn template
FormatInit ==
  /\ i18nMessages \in {Obj([k \in {<<"a">>} |-> Str(template)]) :
                         template \in Templates(MaxTemplateLen)}
  /\ i18nKey = <<"a">>
  /\ i18nOptions \in [values : ValueMaps, fallback : {<<>>}]
  /\ i18nResult = <<>>

I18nIdle ==
  /\ i18nMessages = Obj(EmptyMap)
  /\ i18nKey = <<>>
  /\ i18nOptions = [values |-> <<>>, fallback |-> <<>>]
  /\ i18nResult = <<>>

----------------------------------------------------------------------------
(* I18nProvider: the locale and its persistence *)

\* setLocale calls that may be made
MaxLocaleChanges == 1

EN == <<"e", "n">>
PT == <<"p", "t">>
SUPPORTED_LOCALES == {EN, PT}

\* values the stored item may have when the page loads: absent, empty, supported, other
StoredValues == {<<>>, <<<<>>>>, <<EN>>, <<PT>>, <<<<"f", "r">>>>}

\* values of navigator.language
NavigatorValues ==
  {<<>>, <<PT>>, <<<<"p", "t", "-", "B", "R">>>>, <<<<"e", "n", "-", "U", "S">>>>,
   <<<<"f", "r", "-", "F", "R">>>>}

\* language.split("-")[0]
PrimarySubtag(language) ==
  IF \A i \in DOMAIN language : language[i] # "-"
  THEN language
  ELSE LET dash == CHOOSE i \in DOMAIN language :
                     language[i] = "-" /\ \A j \in 1..(i - 1) : language[j] # "-"
       IN SubSeq(language, 1, dash - 1)

\* getInitialLocale, in the browser
getInitialLocale(stored, navigatorLang) ==
  IF stored # <<>> /\ stored[1] # <<>> /\ stored[1] \in SUPPORTED_LOCALES
  THEN stored[1]
  ELSE IF navigatorLang # <<>> /\ PrimarySubtag(navigatorLang[1]) # <<>>
          /\ PrimarySubtag(navigatorLang[1]) \in SUPPORTED_LOCALES
       THEN PrimarySubtag(navigatorLang[1])
       ELSE EN

\* the effects of the first commit with the persist effect declared first
MountEffects_PersistFirst(state, stored, navigatorLang) ==
  [stored |-> <<state>>, next |-> getInitialLocale(<<state>>, navigatorLang)]

\* The effects of the first commit, in the order of their declaration: the first reads
\* the stored item and calls setLocaleState, the second stores the rendered locale.
MountEffects(state, stored, navigatorLang) ==
  [stored |-> <<state>>, next |-> getInitialLocale(stored, navigatorLang)]

ProviderInit ==
  /\ storedLocale \in StoredValues
  /\ navigatorLanguage \in NavigatorValues
  /\ locale = EN
  /\ providerPhase = "rendered"
  /\ pendingLocale = EN
  /\ storedAtMount = storedLocale
  /\ localeChanges = 0

\* the two effects of I18nProvider run after its first commit
ProviderMountEffects ==
  /\ providerPhase = "rendered"
  /\ LET eff == MountEffects(locale, storedLocale, navigatorLanguage) IN
       /\ storedLocale' = eff.stored
       /\ pendingLocale' = eff.next
       /\ providerPhase' = (IF eff.next = locale THEN "ready" ELSE "updating")
  /\ UNCHANGED <<navigatorLanguage, locale, storedAtMount, localeChanges, apiCalls,
                 httpRequests, cfgVars, rankVars, pureVars, detailVars, pagesVars>>

\* the render that setLocaleState(initialLocale) caused, with the persist effect
ProviderRerender ==
  /\ providerPhase = "updating"
  /\ locale' = pendingLocale
  /\ storedLocale' = <<pendingLocale>>
  /\ providerPhase' = "ready"
  /\ UNCHANGED <<navigatorLanguage, pendingLocale, storedAtMount, localeChanges, apiCalls,
                 httpRequests, cfgVars, rankVars, pureVars, detailVars, pagesVars>>

\* the language switcher: setLocale(nextLocale), its render and the persist effect
setLocale(nextLocale) ==
  /\ providerPhase = "ready"
  /\ nextLocale \in SUPPORTED_LOCALES
  /\ nextLocale # locale
  /\ localeChanges < MaxLocaleChanges
  /\ localeChanges' = localeChanges + 1
  /\ locale' = nextLocale
  /\ pendingLocale' = nextLocale
  /\ storedLocale' = <<nextLocale>>
  /\ UNCHANGED <<navigatorLanguage, providerPhase, storedAtMount, apiCalls, httpRequests,
                 cfgVars, rankVars, pureVars, detailVars, pagesVars>>

----------------------------------------------------------------------------
(* The API client: one function per backend operation *)

\* invocations of api functions
MaxApiCalls == 2

ApiFunctions ==
  {"listChallenges", "createChallenge", "updateChallenge", "addCriteria", "listRepositories",
   "addRepository", "triggerEvaluation", "getEvaluationStatus", "getRanking",
   "getEvaluationHistory"}

\* the parsed body of the response to the request numbered r
PayloadOf(r) == [kind |-> "payload", of |-> r]

\* data.evaluations
EvaluationsOf(data) == [kind |-> "evaluations", of |-> data.of]

\* a function without a return statement resolves to undefined
Void == [kind |-> "undefined", of |-> 0]

\* the error axios rejects the request numbered r with
ErrorOf(r) == [kind |-> "error", of |-> r]

\* the value every function resolves to if it hands back the response body
ReturnValue_Whole(fn, data) == data

\* the value the function resolves to, given the body of its response
ReturnValue(fn, data) ==
  IF fn = "getEvaluationHistory" THEN EvaluationsOf(data)
  ELSE IF fn = "triggerEvaluation" THEN Void
  ELSE data

\* a request interceptor that sends the default locale when none is stored
AcceptLanguage_Default(stored) ==
  IF stored # <<>> /\ stored[1] # <<>> THEN <<stored[1]>> ELSE <<EN>>

\* The request interceptor: the Accept-Language header of a request sent while the
\* storage holds `stored'; <<>> when the header is not set.
AcceptLanguage(stored) ==
  IF stored # <<>> /\ stored[1] # <<>> THEN <<stored[1]>> ELSE <<>>

ApiInit ==
  /\ apiCalls = <<>>
  /\ httpRequests = <<>>

\* an api function is called: its one client.get / post / patch goes out
Invoke(fn) ==
  /\ Len(apiCalls) < MaxApiCalls
  /\ apiCalls' = Append(apiCalls, [fn |-> fn, status |-> "pending", result |-> Void])
  /\ httpRequests' = Append(httpRequests,
       [call |-> Len(apiCalls) + 1, status |-> "sent", data |-> Void,
        acceptLanguage |-> AcceptLanguage(storedLocale)])
  /\ UNCHANGED <<storedLocale, navigatorLanguage, locale, providerPhase, pendingLocale,
                 storedAtMount, localeChanges, cfgVars, rankVars, pureVars, detailVars, pagesVars>>

\* the backend answers the request numbered r
HttpResponds(r) ==
  /\ r \in DOMAIN httpRequests
  /\ httpRequests[r].status = "sent"
  /\ httpRequests' = [httpRequests EXCEPT ![r].status = "ok", ![r].data = PayloadOf(r)]
  /\ UNCHANGED <<storedLocale, navigatorLanguage, locale, providerPhase, pendingLocale,
                 storedAtMount, localeChanges, apiCalls, cfgVars, rankVars, pureVars,
                 detailVars, pagesVars>>

\* the request numbered r fails in transport or with an error status
HttpFails(r) ==
  /\ r \in DOMAIN httpRequests
  /\ httpRequests[r].status = "sent"
  /\ httpRequests' = [httpRequests EXCEPT ![r].status = "err", ![r].data = ErrorOf(r)]
  /\ UNCHANGED <<storedLocale, navigatorLanguage, locale, providerPhase, pendingLocale,
                 storedAtMount, localeChanges, apiCalls, cfgVars, rankVars, pureVars,
                 detailVars, pagesVars>>

\* the awaited request is fulfilled: the function returns
ApiReturns(r) ==
  /\ r \in DOMAIN httpRequests
  /\ httpRequests[r].status = "ok"
  /\ apiCalls[httpRequests[r].call].status = "pending"
  /\ apiCalls' = [apiCalls EXCEPT
       ![httpRequests[r].call].status = "returned",
       ![httpRequests[r].call].result =
          ReturnValue(apiCalls[httpRequests[r].call].fn, httpRequests[r].data)]
  /\ UNCHANGED <<storedLocale, navigatorLanguage, locale, providerPhase, pendingLocale,
                 storedAtMount, localeChanges, httpRequests, cfgVars, rankVars, pureVars,
                 detailVars, pagesVars>>

\* the awaited request is rejected: the function has no catch, so it rejects with the error
ApiRejects(r) ==
  /\ r \in DOMAIN httpRequests
  /\ httpRequests[r].status = "err"
  /\ apiCalls[httpRequests[r].call].status = "pending"
  /\ apiCalls' = [apiCalls EXCEPT
       ![httpRequests[r].call].status = "rejected",
       ![httpRequests[r].call].result = httpRequests[r].data]
  /\ UNCHANGED <<storedLocale, navigatorLanguage, locale, providerPhase, pendingLocale,
                 storedAtMount, localeChanges, httpRequests, cfgVars, rankVars, pureVars,
                 detailVars, pagesVars>>

\* the provider and the client at rest, for the specifications of the pages
ClientIdle ==
  /\ storedLocale = <<EN>>
  /\ navigatorLanguage = <<>>
  /\ locale = EN
  /\ providerPhase = "ready"
  /\ pendingLocale = EN
  /\ storedAtMount = <<EN>>
  /\ localeChanges = MaxLocaleChanges
  /\ apiCalls = <<>>
  /\ httpRequests = <<>>

ClientNext ==
  \/ ProviderMountEffects
  \/ ProviderRerender
  \/ \E nextLocale \in SUPPORTED_LOCALES : setLocale(nextLocale)
  \/ \E fn \in ApiFunctions : Invoke(fn)
  \/ \E r \in 1..MaxApiCalls : HttpResponds(r)
  \/ \E r \in 1..MaxApiCalls : HttpFails(r)
  \/ \E r \in 1..MaxApiCalls : ApiReturns(r)
  \/ \E r \in 1..MaxApiCalls : ApiRejects(r)

----------------------------------------------------------------------------
(* The create request as a function of the form *)

\* longest criteria list of a form drawn as input
MaxFormCriteria == 3

\* criteria lists of at most n entries with names in CriterionNames
RECURSIVE CriteriaLists(_)
CriteriaLists(n) ==
  IF n = 0 THEN {<<>>}
  ELSE LET shorter == CriteriaLists(n - 1) IN
       shorter \cup {Append(cs, [createEmptyCriterion EXCEPT !.name = v]) :
                       cs \in shorter, v \in CriterionNames}

PureInit ==
  /\ pureForm \in {[EmptyChallengeForm EXCEPT !.name = n, !.criteria = cs] :
                     n \in ChallengeNames, cs \in CriteriaLists(MaxFormCriteria)}
  /\ purePayload = <<>>

\* handleCreateChallenge applied to the drawn form
SubmitForm ==
  /\ purePayload = <<>>
  /\ Trim(pureForm.name) # <<>>
  /\ purePayload' = <<CreatePayload(pureForm)>>
  /\ UNCHANGED <<pureForm, i18nVars, cfgVars, rankVars, detailVars, clientVars, pagesVars>>

----------------------------------------------------------------------------
(* Home page.  The fetch effect runs after mount and after every commit    *)
(* that changed selectedId; each run closes over the selectedId it saw.    *)

MaxHomeSelects == 2

HomeErrorMessage == "Unable to load challenges. Please try again later."

\* one run of the effect: fetchChallenges() awaiting api.listChallenges()
FetchChallenges(seen) == [seen |-> seen, status |-> "sent", response |-> <<>>]

HomeInit ==
  /\ homeChallenges = <<>>
  /\ selectedId = NoSelection
  /\ homeIsLoading = TRUE
  /\ homeError = <<>>
  /\ homeReqs = <<FetchChallenges(NoSelection)>>
  /\ autoFetches = 0
  /\ homeSelects = 0
  /\ lastCompleted = "none"

\* if (data.length && !selectedId) setSelectedId(data[0].id)
SelectedAfterFetch(data, seen, current) ==
  IF data # <<>> /\ seen = NoSelection THEN data[1].id ELSE current

\* the dependency array [selectedId]: the calls in flight after a commit
HomeEffect(reqs, before, after) ==
  IF after # before THEN Append(reqs, FetchChallenges(after)) ELSE reqs

HomeBackendLists(i) ==
  /\ i \in DOMAIN homeReqs
  /\ homeReqs[i].status = "sent"
  /\ homeReqs' = Settle(homeReqs, i, "ok", <<backend>>)
  /\ UNCHANGED <<homeChallenges, selectedId, homeIsLoading, homeError, autoFetches,
                 homeSelects, lastCompleted, repoVars, cfgVars, rankVars, pureVars,
                 detailVars, clientVars>>

HomeListFails(i) ==
  /\ i \in DOMAIN homeReqs
  /\ homeReqs[i].status = "sent"
  /\ homeReqs' = Settle(homeReqs, i, "err", <<>>)
  /\ UNCHANGED <<homeChallenges, selectedId, homeIsLoading, homeError, autoFetches,
                 homeSelects, lastCompleted, repoVars, cfgVars, rankVars, pureVars,
                 detailVars, clientVars>>

\* try branch and finally of fetchChallenges, then the effect of the commit
HomeResolved(i) ==
  /\ i \in DOMAIN homeReqs
  /\ homeReqs[i].status = "ok"
  /\ LET data == homeReqs[i].response[1]
         next == SelectedAfterFetch(data, homeReqs[i].seen, selectedId)
     IN /\ homeChallenges' = data
        /\ selectedId' = next
        /\ homeReqs' = HomeEffect(RemoveAt(homeReqs, i), selectedId, next)
        /\ autoFetches' = IF next # selectedId THEN autoFetches + 1 ELSE autoFetches
  /\ homeIsLoading' = FALSE
  /\ lastCompleted' = "ok"
  /\ UNCHANGED <<homeError, homeSelects, repoVars, cfgVars, rankVars, pureVars,
                 detailVars, clientVars>>

\* catch branch and finally of fetchChallenges
HomeRejected(i) ==
  /\ i \in DOMAIN homeReqs
  /\ homeReqs[i].status = "err"
  /\ homeError' = <<HomeErrorMessage>>
  /\ homeIsLoading' = FALSE
  /\ homeReqs' = RemoveAt(homeReqs, i)
  /\ lastCompleted' = "err"
  /\ UNCHANGED <<homeChallenges, selectedId, autoFetches, homeSelects, repoVars, cfgVars,
                 rankVars, pureVars, detailVars, clientVars>>

\* the Select's onChange={setSelectedId}: another of the listed options is picked
HomeSelect(k) ==
  /\ k \in DOMAIN homeChallenges
  /\ homeSelects < MaxHomeSelects
  /\ homeChallenges[k].id # selectedId
  /\ selectedId' = homeChallenges[k].id
  /\ homeReqs' = HomeEffect(homeReqs, selectedId, homeChallenges[k].id)
  /\ homeSelects' = homeSelects + 1
  /\ UNCHANGED <<homeChallenges, homeIsLoading, homeError, autoFetches, lastCompleted,
                 repoVars, cfgVars, rankVars, pureVars, detailVars, clientVars>>

HomeIdle ==
  /\ homeChallenges = <<>>
  /\ selectedId = NoSelection
  /\ homeIsLoading = TRUE
  /\ homeError = <<>>
  /\ homeReqs = <<>>
  /\ autoFetches = 0
  /\ homeSelects = MaxHomeSelects
  /\ lastCompleted = "none"

----------------------------------------------------------------------------
(* Challenge repositories page.  loadData awaits Promise.all of two calls; *)
(* handleAddRepository awaits api.addRepository and has no busy flag.      *)

MaxRepoAdds == 2

\* a challenge id no challenge of the backend has
UnknownChallengeId == 3

EmptyRepoForm == [name |-> <<>>, url |-> <<>>]

\* what is typed into the two inputs
RepoInputs == {<<>>, <<SP>>, <<"a">>}

\* challenges.find((item) => item.id === challengeId) ?? null
FindChallenge(cs, id) ==
  LET found == {k \in DOMAIN cs : cs[k].id = id}
  IN IF found = {} THEN <<>>
     ELSE <<cs[CHOOSE k \in found : \A j \in found : k <= j]>>

\* Promise.all([...]): rejected once one call failed, fulfilled once all succeeded
PromiseAll(calls) ==
  IF \E c \in DOMAIN calls : calls[c].status = "err" THEN "rejected"
  ELSE IF \A c \in DOMAIN calls : calls[c].status = "ok" THEN "fulfilled"
  ELSE "pending"

\* [...prev, created]
AppendCreated(prev, created) == Append(prev, created)

RepoInit ==
  /\ repoChallengeId \in {1, UnknownChallengeId}
  /\ repoChallenge = <<>>
  /\ repositories = <<>>
  /\ repoModalOpen = FALSE
  /\ repoForm = EmptyRepoForm
  /\ loadData = <<[c \in 1..2 |-> [status |-> "sent", response |-> <<>>]]>>
  /\ addRepoReqs = <<>>
  /\ storedRepositories \in
       {<<>>, <<[id |-> 1, challenge_id |-> repoChallengeId, name |-> <<"s">>, url |-> <<"u">>]>>}
  /\ repoAdds = 0
  /\ lastRepoStep = "none"

\* the backend answers api.listChallenges() (call 1) or api.listRepositories(challengeId) (call 2)
BackendAnswersLoad(c) ==
  /\ loadData # <<>>
  /\ c \in DOMAIN loadData[1]
  /\ loadData[1][c].status = "sent"
  /\ loadData' = <<Settle(loadData[1], c, "ok",
                          <<IF c = 1 THEN backend ELSE storedRepositories>>)>>
  /\ lastRepoStep' = "backend"
  /\ UNCHANGED <<repoChallengeId, repoChallenge, repositories, repoModalOpen, repoForm,
                 addRepoReqs, storedRepositories, repoAdds, homeVars, cfgVars, rankVars,
                 pureVars, detailVars, clientVars>>

LoadCallFails(c) ==
  /\ loadData # <<>>
  /\ c \in DOMAIN loadData[1]
  /\ loadData[1][c].status = "sent"
  /\ loadData' = <<Settle(loadData[1], c, "err", <<>>)>>
  /\ lastRepoStep' = "backend"
  /\ UNCHANGED <<repoChallengeId, repoChallenge, repositories, repoModalOpen, repoForm,
                 addRepoReqs, storedRepositories, repoAdds, homeVars, cfgVars, rankVars,
                 pureVars, detailVars, clientVars>>

\* loadData after the await: setChallenge and setRepositories
LoadResolved ==
  /\ loadData # <<>>
  /\ PromiseAll(loadData[1]) = "fulfilled"
  /\ repoChallenge' = FindChallenge(loadData[1][1].response[1], repoChallengeId)
  /\ repositories' = loadData[1][2].response[1]
  /\ loadData' = <<>>
  /\ lastRepoStep' = "loadResolved"
  /\ UNCHANGED <<repoChallengeId, repoModalOpen, repoForm, addRepoReqs, storedRepositories,
                 repoAdds, homeVars, cfgVars, rankVars, pureVars, detailVars, clientVars>>

\* a catch branch that keeps what the calls that succeeded returned
LoadRejected_Partial ==
  /\ loadData # <<>>
  /\ PromiseAll(loadData[1]) = "rejected"
  /\ repoChallenge' = IF loadData[1][1].status = "ok"
                      THEN FindChallenge(loadData[1][1].response[1], repoChallengeId)
                      ELSE repoChallenge
  /\ repositories' = IF loadData[1][2].status = "ok"
                     THEN loadData[1][2].response[1]
                     ELSE repositories
  /\ loadData' = <<>>
  /\ lastRepoStep' = "loadRejected"
  /\ UNCHANGED <<repoChallengeId, repoModalOpen, repoForm, addRepoReqs, storedRepositories,
                 repoAdds, homeVars, cfgVars, rankVars, pureVars, detailVars, clientVars>>

\* loadData's catch branch: console.error(error)
LoadRejected ==
  /\ loadData # <<>>
  /\ PromiseAll(loadData[1]) = "rejected"
  /\ loadData' = <<>>
  /\ lastRepoStep' = "loadRejected"
  /\ UNCHANGED <<repoChallengeId, repoChallenge, repositories, repoModalOpen, repoForm,
                 addRepoReqs, storedRepositories, repoAdds, homeVars, cfgVars, rankVars,
                 pureVars, detailVars, clientVars>>

\* the "Add repository" button of the page
OpenRepoModal ==
  /\ ~repoModalOpen
  /\ repoModalOpen' = TRUE
  /\ lastRepoStep' = "open"
  /\ UNCHANGED <<repoChallengeId, repoChallenge, repositories, repoForm, loadData, addRepoReqs,
                 storedRepositories, repoAdds, homeVars, cfgVars, rankVars, pureVars,
                 detailVars, clientVars>>

\* the Modal's onClose
CloseRepoModal ==
  /\ repoModalOpen
  /\ repoModalOpen' = FALSE
  /\ lastRepoStep' = "close"
  /\ UNCHANGED <<repoChallengeId, repoChallenge, repositories, repoForm, loadData, addRepoReqs,
                 storedRepositories, repoAdds, homeVars, cfgVars, rankVars, pureVars,
                 detailVars, clientVars>>

\* the two inputs of the Modal
SetRepoForm(field, value) ==
  /\ repoModalOpen
  /\ repoForm[field] # value
  /\ repoForm' = [repoForm EXCEPT ![field] = value]
  /\ lastRepoStep' = "edit"
  /\ UNCHANGED <<repoChallengeId, repoChallenge, repositories, repoModalOpen, loadData,
                 addRepoReqs, storedRepositories, repoAdds, homeVars, cfgVars, rankVars,
                 pureVars, detailVars, clientVars>>

\* handleAddRepository up to its await
handleAddRepository ==
  /\ repoModalOpen
  /\ repoAdds < MaxRepoAdds
  /\ repoAdds' = repoAdds + 1
  /\ IF repoChallengeId = NoSelection \/ Trim(repoForm.name) = <<>> \/ Trim(repoForm.url) = <<>>
     THEN /\ lastRepoStep' = "addBlank"
          /\ UNCHANGED addRepoReqs
     ELSE /\ lastRepoStep' = "addSent"
          /\ addRepoReqs' = Append(addRepoReqs,
                                   [challenge_id |-> repoChallengeId, name |-> repoForm.name,
                                    url |-> repoForm.url, status |-> "sent",
                                    response |-> <<>>])
  /\ UNCHANGED <<repoChallengeId, repoChallenge, repositories, repoModalOpen, repoForm, loadData,
                 storedRepositories, homeVars, cfgVars, rankVars, pureVars, detailVars,
                 clientVars>>

\* the backend stores the repository and answers with it
BackendAddsRepository(i) ==
  /\ i \in DOMAIN addRepoReqs
  /\ addRepoReqs[i].status = "sent"
  /\ LET created == [id |-> Len(storedRepositories) + 1,
                     challenge_id |-> addRepoReqs[i].challenge_id,
                     name |-> addRepoReqs[i].name, url |-> addRepoReqs[i].url]
     IN /\ storedRepositories' = Append(storedRepositories, created)
        /\ addRepoReqs' = Settle(addRepoReqs, i, "ok", <<created>>)
  /\ lastRepoStep' = "backend"
  /\ UNCHANGED <<repoChallengeId, repoChallenge, repositories, repoModalOpen, repoForm, loadData,
                 repoAdds, homeVars, cfgVars, rankVars, pureVars, detailVars, clientVars>>

AddRepositoryFails(i) ==
  /\ i \in DOMAIN addRepoReqs
  /\ addRepoReqs[i].status = "sent"
  /\ addRepoReqs' = Settle(addRepoReqs, i, "err", <<>>)
  /\ lastRepoStep' = "backend"
  /\ UNCHANGED <<repoChallengeId, repoChallenge, repositories, repoModalOpen, repoForm, loadData,
                 storedRepositories, repoAdds, homeVars, cfgVars, rankVars, pureVars,
                 detailVars, clientVars>>

\* handleAddRepository after the await
AddRepositoryResolved(i) ==
  /\ i \in DOMAIN addRepoReqs
  /\ addRepoReqs[i].status = "ok"
  /\ repositories' = AppendCreated(repositories, addRepoReqs[i].response[1])
  /\ repoModalOpen' = FALSE
  /\ repoForm' = EmptyRepoForm
  /\ addRepoReqs' = RemoveAt(addRepoReqs, i)
  /\ lastRepoStep' = "addResolved"
  /\ UNCHANGED <<repoChallengeId, repoChallenge, loadData, storedRepositories, repoAdds,
                 homeVars, cfgVars, rankVars, pureVars, detailVars, clientVars>>

\* handleAddRepository's catch branch: console.error(error)
AddRepositoryRejected(i) ==
  /\ i \in DOMAIN addRepoReqs
  /\ addRepoReqs[i].status = "err"
  /\ addRepoReqs' = RemoveAt(addRepoReqs, i)
  /\ lastRepoStep' = "addRejected"
  /\ UNCHANGED <<repoChallengeId, repoChallenge, repositories, repoModalOpen, repoForm, loadData,
                 storedRepositories, repoAdds, homeVars, cfgVars, rankVars, pureVars,
                 detailVars, clientVars>>

RepoIdle ==
  /\ repoChallengeId = NoSelection
  /\ repoChallenge = <<>>
  /\ repositories = <<>>
  /\ repoModalOpen = FALSE
  /\ repoForm = EmptyRepoForm
  /\ loadData = <<>>
  /\ addRepoReqs = <<>>
  /\ storedRepositories = <<>>
  /\ repoAdds = MaxRepoAdds
  /\ lastRepoStep = "none"

PagesIdle == HomeIdle /\ RepoIdle

\* the variables of a part of the model that a specification leaves out
RankIdle ==
  /\ RankInit
  /\ params = <<>>
PureIdle ==
  /\ pureForm = EmptyChallengeForm
  /\ purePayload = <<>>
  /\ I18nIdle

----------------------------------------------------------------------------
(* Configuration page: specification *)

CfgNext ==
  \/ OpenChallengeModal
  \/ \E v \in {<<SP, "x">>} : SetChallengeName(v)
  \/ openNewDraftCriterion
  \/ \E index \in 0..MaxCriteria : openDraftCriterion(index)
  \/ \E index \in 0..MaxCriteria : removeDraftCriterionAtIndex(index)
  \/ \E v \in {<<"a">>} : SetDraftName(v)
  \/ CloseDraftEditor
  \/ handleSaveDraftCriterion
  \/ handleDeleteDraftCriterion
  \/ handleCloseChallengeModal
  \/ handleCreateChallenge
  \/ \E i \in 1..MaxChallenges : BackendCreates(i)
  \/ \E i \in 1..MaxChallenges : CreateFails(i)
  \/ \E i \in 1..MaxChallenges : CreateResolved(i)
  \/ \E i \in 1..MaxChallenges : CreateRejected(i)
  \/ \E k \in {1} : handleOpenCriteriaModal(k)
  \/ \E v \in {<<"a">>} : SetCriteriaDraftName(v)
  \/ CloseCriteriaModal
  \/ handleAddCriteria
  \/ \E i \in 1..MaxCriteria : BackendAddsCriteria(i)
  \/ \E i \in 1..MaxCriteria : AddFails(i)
  \/ \E i \in 1..MaxCriteria : AddResolved(i)
  \/ \E i \in 1..MaxCriteria : AddRejected(i)
  \/ \E k \in {1} : handleToggleChallengeActive(k, MaxToggles)
  \/ \E i \in 1..MaxToggles : BackendUpdates(i)
  \/ \E i \in 1..MaxToggles : ToggleFails(i)
  \/ \E i \in 1..MaxToggles : ToggleResolved(i)
  \/ \E i \in 1..MaxToggles : ToggleRejected(i)
  \/ \E i \in DOMAIN listReqs : BackendLists(i)
  \/ \E i \in DOMAIN listReqs : ListFails(i)
  \/ \E i \in DOMAIN listReqs : ListResolved(i)
  \/ \E i \in DOMAIN listReqs : ListRejected(i)

Init == CfgInit /\ RankIdle /\ PureIdle /\ DetailInit /\ PagesIdle /\ ClientIdle

Spec == Init /\ [][CfgNext]_vars


DraftNext ==
  \/ OpenChallengeModal
  \/ \E v \in ChallengeNames : SetChallengeName(v)
  \/ \E b \in BOOLEAN : SetChallengeActive(b)
  \/ openNewDraftCriterion
  \/ \E index \in 0..MaxCriteria : openDraftCriterion(index)
  \/ \E index \in 0..MaxCriteria : removeDraftCriterionAtIndex(index)
  \/ \E v \in CriterionNames : SetDraftName(v)
  \/ CloseDraftEditor
  \/ handleSaveDraftCriterion
  \/ handleDeleteDraftCriterion
  \/ handleCloseChallengeModal
  \/ handleCreateChallenge
  \/ \E i \in 1..MaxChallenges : BackendCreates(i)
  \/ \E i \in 1..MaxChallenges : CreateFails(i)
  \/ \E i \in 1..MaxChallenges : CreateResolved(i)
  \/ \E i \in 1..MaxChallenges : CreateRejected(i)
  \/ \E i \in DOMAIN listReqs : BackendLists(i)
  \/ \E i \in DOMAIN listReqs : ListFails(i)
  \/ \E i \in DOMAIN listReqs : ListResolved(i)
  \/ \E i \in DOMAIN listReqs : ListRejected(i)

SpecDraft == Init /\ [][DraftNext]_vars

----------------------------------------------------------------------------
(* Configuration page, the cards of two challenges: specification.  The backend *)
(* holds two challenges; the user toggles them and adds criteria to them.       *)

CardsNext ==
  \/ \E k \in 1..MaxChallenges : handleOpenCriteriaModal(k)
  \/ \E v \in {<<"a">>} : SetCriteriaDraftName(v)
  \/ CloseCriteriaModal
  \/ handleAddCriteria
  \/ \E i \in 1..MaxCriteria : BackendAddsCriteria(i)
  \/ \E i \in 1..MaxCriteria : AddFails(i)
  \/ \E i \in 1..MaxCriteria : AddResolved(i)
  \/ \E i \in 1..MaxCriteria : AddRejected(i)
  \/ \E k \in 1..MaxChallenges : handleToggleChallengeActive(k, MaxCardToggles)
  \/ \E i \in 1..MaxCardToggles : BackendUpdates(i)
  \/ \E i \in 1..MaxCardToggles : ToggleFails(i)
  \/ \E i \in 1..MaxCardToggles : ToggleResolved(i)
  \/ \E i \in 1..MaxCardToggles : ToggleRejected(i)
  \/ \E i \in DOMAIN listReqs : BackendLists(i)
  \/ \E i \in DOMAIN listReqs : ListFails(i)
  \/ \E i \in DOMAIN listReqs : ListResolved(i)
  \/ \E i \in DOMAIN listReqs : ListRejected(i)

InitCards ==
  CfgClientInit /\ backend = <<SeedChallenge, [SeedChallenge EXCEPT !.id = 2]>>
    /\ RankIdle /\ PureIdle /\ DetailInit /\ PagesIdle /\ ClientIdle

SpecCards == InitCards /\ [][CardsNext]_vars

----------------------------------------------------------------------------
(* Rank page: specification *)

\* the challenges the backend holds while the rank page is open
RankBackends ==
  {<<>>, <<SeedChallenge>>, <<SeedChallenge, [SeedChallenge EXCEPT !.id = 2]>>}

RankNext ==
  \/ \E p \in ParamValues : ParamsChange(p)
  \/ \E i \in 1..MaxLoads : BackendListsForRank(i)
  \/ \E i \in 1..MaxLoads : RankListFails(i)
  \/ \E i \in 1..MaxLoads : RankListResolved(i)
  \/ \E i \in 1..MaxLoads : RankListRejected(i)
  \/ \E k \in DOMAIN loadedChallenges : SelectChallenge(k)
  \/ IntervalElapses
  \/ \E i \in DOMAIN rankReqs : BackendRanks(i)
  \/ \E i \in DOMAIN rankReqs : RankFails(i)
  \/ \E i \in DOMAIN rankReqs : RankResolved(i)
  \/ \E i \in DOMAIN rankReqs : RankRejected(i)
  \/ Unmount

InitRank ==
  CfgClientInit /\ backend \in RankBackends /\ PureIdle /\ RankInit /\ DetailInit /\ PagesIdle /\ ClientIdle

SpecRank == InitRank /\ [][RankNext]_vars

\* The continuation of a fulfilled getRanking promise is a microtask: it runs once the
\* response has arrived.  Nothing makes the backend answer, a timer fire or the user act.
RankFairness ==
  \A s \in 1..MaxPolls :
    WF_vars(\E i \in DOMAIN rankReqs : rankReqs[i].seq = s /\ RankResolved(i))

SpecRankLive == InitRank /\ [][RankNext]_vars /\ RankFairness

----------------------------------------------------------------------------
(* The create request as a function of the form: specification *)

InitPayload == CfgInit /\ RankIdle /\ PureInit /\ I18nIdle /\ DetailInit /\ PagesIdle /\ ClientIdle

SpecPayload == InitPayload /\ [][SubmitForm]_vars

----------------------------------------------------------------------------
(* Home page: specification *)

HomeNext ==
  \/ \E i \in 1..(MaxHomeSelects + 2) : HomeBackendLists(i)
  \/ \E i \in 1..(MaxHomeSelects + 2) : HomeListFails(i)
  \/ \E i \in 1..(MaxHomeSelects + 2) : HomeResolved(i)
  \/ \E i \in 1..(MaxHomeSelects + 2) : HomeRejected(i)
  \/ \E k \in 1..MaxChallenges : HomeSelect(k)

InitHome ==
  CfgClientInit /\ backend \in RankBackends /\ RankIdle /\ PureIdle /\ DetailInit
    /\ HomeInit /\ RepoIdle /\ ClientIdle

SpecHome == InitHome /\ [][HomeNext]_vars

----------------------------------------------------------------------------
(* Challenge repositories page: specification *)

ReposNext ==
  \/ \E c \in 1..2 : BackendAnswersLoad(c)
  \/ \E c \in 1..2 : LoadCallFails(c)
  \/ LoadResolved
  \/ LoadRejected
  \/ OpenRepoModal
  \/ CloseRepoModal
  \/ \E field \in {"name", "url"}, value \in RepoInputs : SetRepoForm(field, value)
  \/ handleAddRepository
  \/ \E i \in 1..MaxRepoAdds : BackendAddsRepository(i)
  \/ \E i \in 1..MaxRepoAdds : AddRepositoryFails(i)
  \/ \E i \in 1..MaxRepoAdds : AddRepositoryResolved(i)
  \/ \E i \in 1..MaxRepoAdds : AddRepositoryRejected(i)

InitRepos ==
  CfgClientInit /\ backend = <<SeedChallenge, [SeedChallenge EXCEPT !.id = 2]>>
    /\ RankIdle /\ PureIdle /\ DetailInit /\ HomeIdle /\ RepoInit /\ ClientIdle

SpecRepos == InitRepos /\ [][ReposNext]_vars

----------------------------------------------------------------------------
(* Rank page, evaluation details: specification.  The page loads two challenges, *)
(* the ranking is fetched when a challenge is selected, rows are opened.         *)

DetailNext ==
  \/ \E i \in 1..MaxLoads : BackendListsForRank(i)
  \/ \E i \in 1..MaxLoads : RankListResolved(i)
  \/ \E k \in DOMAIN loadedChallenges : SelectChallenge(k)
  \/ \E i \in DOMAIN rankReqs : BackendRanks(i)
  \/ \E i \in DOMAIN rankReqs : RankResolved(i)
  \/ \E k \in DOMAIN rankEntries : openEvaluationModal(k)
  \/ CloseEvaluationModal
  \/ \E i \in 1..MaxDetailCalls : BackendHistory(i)
  \/ \E i \in 1..MaxDetailCalls : HistoryFails(i)
  \/ \E i \in 1..MaxDetailCalls : DetailResolved(i)
  \/ \E i \in 1..MaxDetailCalls : DetailRejected(i)

InitDetail ==
  CfgClientInit /\ backend = <<SeedChallenge, [SeedChallenge EXCEPT !.id = 2]>>
    /\ RankIdle /\ PureIdle /\ DetailInit /\ PagesIdle /\ ClientIdle

SpecDetail == InitDetail /\ [][DetailNext]_vars

----------------------------------------------------------------------------
(* i18n: specifications *)

InitI18n ==
  CfgInit /\ RankIdle /\ DetailInit /\ PagesIdle /\ pureForm = EmptyChallengeForm /\ purePayload = <<>>
    /\ I18nInit /\ ClientIdle

SpecI18n == InitI18n /\ [][CallT]_vars

InitFormat ==
  CfgInit /\ RankIdle /\ DetailInit /\ PagesIdle /\ pureForm = EmptyChallengeForm /\ purePayload = <<>>
    /\ FormatInit /\ ClientIdle

SpecFormat == InitFormat /\ [][CallT]_vars

----------------------------------------------------------------------------
(* The provider's locale and the API client: specification *)

InitClient == CfgInit /\ RankIdle /\ PureIdle /\ DetailInit /\ PagesIdle /\ ProviderInit /\ ApiInit

SpecClient == InitClient /\ [][ClientNext]_vars

----------------------------------------------------------------------------
(* Steps, as seen in a pair of states *)

DraftOpens == ~isDraftCriteriaModalOpen /\ isDraftCriteriaModalOpen'
DraftCloses == isDraftCriteriaModalOpen /\ ~isDraftCriteriaModalOpen'

\* the continuation of request i of reqs runs, the request having ended with status
Delivered(reqs, reqsNext, i, status) ==
  /\ i \in DOMAIN reqs
  /\ reqs[i].status = status
  /\ reqsNext = RemoveAt(reqs, i)

CreateSuccessStep == \E i \in DOMAIN createReqs : Delivered(createReqs, createReqs', i, "ok")
AddSuccessStep == \E i \in DOMAIN addReqs : Delivered(addReqs, addReqs', i, "ok")
ToggleSuccessStep == \E i \in DOMAIN toggleReqs : Delivered(toggleReqs, toggleReqs', i, "ok")
ListSuccessStep == \E i \in DOMAIN listReqs : Delivered(listReqs, listReqs', i, "ok")
CreateFailureStep == \E i \in DOMAIN createReqs : Delivered(createReqs, createReqs', i, "err")
AddFailureStep == \E i \in DOMAIN addReqs : Delivered(addReqs, addReqs', i, "err")
ToggleFailureStep == \E i \in DOMAIN toggleReqs : Delivered(toggleReqs, toggleReqs', i, "err")

----------------------------------------------------------------------------
(* Properties of the pages *)

\* C1 as stated: opening the draft editor from the open challenge modal hides the modal
\* and records shouldResumeChallengeModal, and whenever the draft editor becomes closed
\* the challenge modal is as visible as it was just before the editor opened.
C1_Original ==
  [][ /\ (DraftOpens /\ isChallengeModalOpen)
           => (~isChallengeModalOpen' /\ shouldResumeChallengeModal')
      /\ DraftCloses => (isChallengeModalOpen' = challengeModalBeforeDraft) ]_vars

\* C1 amended: as above when the user closes the editor (close, save, delete); when a
\* createChallenge success closes the editor, the challenge modal is closed with it.
C1_DraftResume ==
  [][ /\ (DraftOpens /\ isChallengeModalOpen)
           => (~isChallengeModalOpen' /\ shouldResumeChallengeModal')
      /\ DraftCloses =>
           (isChallengeModalOpen' =
              (IF CreateSuccessStep THEN FALSE ELSE challengeModalBeforeDraft)) ]_vars

\* the editor was opened from the open challenge modal, a save closed it, the modal is back
C1_Witness ==
  /\ lastHandler = "handleSaveDraftCriterion"
  /\ challengeModalBeforeDraft
  /\ isChallengeModalOpen
  /\ ~isDraftCriteriaModalOpen

\* C2: a step of handleSaveDraftCriterion with draftCriteriaIndex null appends the draft
\* form as the last criterion and keeps the earlier entries; with index i it keeps the
\* length, makes entry i the draft form and keeps every other entry.
C2_SaveDraft ==
  [][ lastHandler' = "handleSaveDraftCriterion" =>
        LET prev == challengeForm.criteria
            next == challengeForm'.criteria
            i == draftCriteriaIndex + 1
        IN IF draftCriteriaIndex = NullIndex
           THEN /\ Len(next) = Len(prev) + 1
                /\ next[Len(next)] = draftCriteriaForm
                /\ \A j \in DOMAIN prev : next[j] = prev[j]
           ELSE /\ i \in DOMAIN prev
                /\ Len(next) = Len(prev)
                /\ next[i] = draftCriteriaForm
                /\ \A j \in DOMAIN prev \ {i} : next[j] = prev[j] ]_vars

\* a save left two different criteria in the form, the second one kept or put by index
C2_Witness ==
  /\ lastHandler = "handleSaveDraftCriterion"
  /\ Len(challengeForm.criteria) = 2
  /\ challengeForm.criteria[1].name = <<"a">>
  /\ challengeForm.criteria[2].name = <<"b">>

\* C3: the callback has run once for each time polling was enabled (or mounted enabled)
\* and once for each interval that elapsed while enabled, and never otherwise: none of
\* the intervals elapsed while disabled or unmounted ran it.
C3_PollingCalls == pollCalls = pollStarts + pollPeriods

\* polling ran and ticked, was then disabled or torn down, and an interval elapsed after
C3_Witness ==
  /\ pollStarts >= 1
  /\ pollPeriods >= 1
  /\ idlePeriods >= 1
  /\ ~(mounted /\ PollEnabled)

\* C4: the criteria of the create request are exactly the form's criteria whose trimmed
\* name is not empty, in the form's order; a blank-named entry is never sent.
C4_SentCriteria ==
  purePayload # <<>> =>
    LET sent == purePayload[1].criteria
        kept == {i \in DOMAIN pureForm.criteria : Trim(pureForm.criteria[i].name) # <<>>}
    IN /\ Len(sent) = Cardinality(kept)
       /\ \A k \in DOMAIN sent :
            \E i \in kept :
              /\ Cardinality({j \in kept : j <= i}) = k
              /\ sent[k] = pureForm.criteria[i]

\* a form whose first criterion has a whitespace-only name was submitted: one is sent
C4_Witness ==
  /\ purePayload # <<>>
  /\ Len(pureForm.criteria) = 2
  /\ pureForm.criteria[1].name = <<SP>>
  /\ pureForm.criteria[2].name = <<"a">>
  /\ Len(purePayload[1].criteria) = 1
  /\ purePayload[1].criteria[1].name = <<"a">>

\* C5 as stated: whatever the user did while the createChallenge request was in flight,
\* its success appends the created challenge at the end of the list and resets the
\* challenge modal, the draft editor, the index, the resume flag, both forms and loading.
C5_Original ==
  [][ \A i \in DOMAIN createReqs :
        Delivered(createReqs, createReqs', i, "ok") =>
          /\ challenges' = Append(challenges, createReqs[i].response[1])
          /\ ~isChallengeModalOpen'
          /\ ~isDraftCriteriaModalOpen'
          /\ draftCriteriaIndex' = NullIndex
          /\ ~shouldResumeChallengeModal'
          /\ draftCriteriaForm' = createEmptyCriterion
          /\ challengeForm' = EmptyChallengeForm
          /\ ~loading' ]_vars

\* a step that opens, saves, deletes or closes a draft criterion
DraftEditStep ==
  /\ ~CreateSuccessStep
  /\ \/ isDraftCriteriaModalOpen' # isDraftCriteriaModalOpen
     \/ lastHandler' \in {"CloseDraftEditor", "handleSaveDraftCriterion",
                          "handleDeleteDraftCriterion"}
     \/ /\ challengeForm'.criteria # challengeForm.criteria
        /\ isChallengeModalOpen'

\* a draft edit issues no request and leaves the challenges list and the backend alone
DraftEditsLocal == DraftEditStep => UNCHANGED <<challenges, reqVars, backend>>

\* a createChallenge request is issued carrying the form's named criteria
CreateCarriesDrafts ==
  Len(createReqs') > Len(createReqs) =>
    /\ createReqs' = Append(createReqs, createReqs'[Len(createReqs')])
    /\ createReqs'[Len(createReqs')].payload.criteria = FilterNamed(challengeForm.criteria)

\* C6 as stated: draft edits are local, draft criteria are sent only in the createChallenge
\* request, and the challenges list changes only on a createChallenge, addCriteria or
\* updateChallenge success.
C6_Original ==
  [][ /\ DraftEditsLocal
      /\ CreateCarriesDrafts
      /\ challenges' # challenges =>
           (CreateSuccessStep \/ AddSuccessStep \/ ToggleSuccessStep) ]_vars

\* C6 amended: as above, and the challenges list also changes when the listChallenges
\* load of the mount effect succeeds.
C6_DraftsLocal ==
  [][ /\ DraftEditsLocal
      /\ CreateCarriesDrafts
      /\ challenges' # challenges =>
           (CreateSuccessStep \/ AddSuccessStep \/ ToggleSuccessStep \/ ListSuccessStep)
    ]_vars

\* two drafts were saved in the form of the open challenge modal: the loaded list is as
\* the backend gave it and no create request has been sent
C6_Witness ==
  /\ lastHandler = "handleSaveDraftCriterion"
  /\ Len(challengeForm.criteria) = 2
  /\ challenges = <<SeedChallenge>>
  /\ backend = <<SeedChallenge>>
  /\ createReqs = <<>>
  /\ addReqs = <<>>

\* C7: delivering the failure of a createChallenge or addCriteria request changes nothing
\* of the page but loading, which becomes false; delivering the failure of an
\* updateChallenge request changes nothing but togglingChallengeId, which is cleared.
C7_FailureKeepsState ==
  [][ /\ (CreateFailureStep \/ AddFailureStep) =>
           (~loading' /\ UNCHANGED <<challenges, uiVars, togglingChallengeId>>)
      /\ ToggleFailureStep =>
           (togglingChallengeId' = NullId /\ UNCHANGED <<challenges, uiVars, loading>>)
    ]_vars

\* a create failure was delivered while the draft editor was open over a filled form
C7_Witness ==
  /\ lastHandler = "CreateRejected"
  /\ isDraftCriteriaModalOpen
  /\ Trim(challengeForm.name) # <<>>
  /\ ~loading

\* C8: a ranking response delivered while another challenge is selected replaces
\* rankEntries with its entries, also after a response for the selection was applied.
C8_StaleOverwrites ==
  [][ \A i \in DOMAIN rankReqs :
        ( /\ Delivered(rankReqs, rankReqs', i, "ok")
          /\ mounted
          /\ rankReqs[i].challenge_id # selectedChallengeId )
        => rankEntries' = rankReqs[i].response[1].entries ]_vars

\* challenge 2 is selected and a response for it was applied, yet the entries shown are
\* those of challenge 1
C8_Witness ==
  /\ selectedChallengeId = 2
  /\ appliedSinceSelect
  /\ rankEntries # <<>>
  /\ EntriesChallenge(rankEntries) = 1

\* an interval elapses
PeriodStep == pollPeriods' # pollPeriods \/ idlePeriods' # idlePeriods

\* C9: a tick of enabled polling issues one more getRanking request whatever is still in
\* flight, and a response replaces rankEntries also when the response of a request
\* issued later was already applied.
C9_NoOverlapControl ==
  [][ /\ (PeriodStep /\ mounted /\ timers = 1 /\ Enabled(savedCallback))
           => Len(rankReqs') = Len(rankReqs) + 1
      /\ \A i \in DOMAIN rankReqs :
           ( /\ Delivered(rankReqs, rankReqs', i, "ok")
             /\ mounted
             /\ rankReqs[i].seq < maxAppliedSeq )
           => (rankEntries' = rankReqs[i].response[1].entries
               /\ shownSeq' = rankReqs[i].seq) ]_vars

\* the entries shown came from a request issued before one whose response was applied
C9_Witness ==
  /\ shownSeq >= 1
  /\ shownSeq < maxAppliedSeq
  /\ rankEntries # <<>>

\* C10 as stated: when the listChallenges of the mount effect succeeds, the selection
\* becomes the loaded challenge matching the challengeId parameter, or else the first
\* loaded one; so selectedChallengeId is empty or the id of a loaded challenge.
C10_Original ==
  [][ \A i \in DOMAIN rankListReqs :
        (Delivered(rankListReqs, rankListReqs', i, "ok") /\ mounted) =>
          LET param == rankListReqs[i].param
              data == rankListReqs[i].response[1]
              ids == {data[k].id : k \in DOMAIN data}
              matchingOrFirst ==
                IF param # <<>> /\ param[1] \in ids THEN param[1]
                ELSE IF data # <<>> THEN data[1].id
                ELSE NoSelection
          IN /\ selectedChallengeId' = matchingOrFirst
             /\ selectedChallengeId' \in {NoSelection} \cup ids ]_vars

\* C11 as stated: while the details modal is open and not loading, evaluationDetails is
\* what was fetched for selectedRepositoryId, never the list of another repository (an
\* empty list, as before any fetch succeeded, is read as no carried-over list).
C11_Original ==
  (isModalOpen /\ ~isLoading) =>
    \A d \in DOMAIN evaluationDetails :
      evaluationDetails[d].repository_id = selectedRepositoryId

\* C12 as stated: t returns a string, which without a values map is the string leaf the
\* key resolves to, or else the fallback if given, or else the key.
C12_Original ==
  i18nResult # <<>> =>
    LET resolved == resolveMessage(i18nMessages, i18nKey)
        claimed == IF resolved.type = "string" THEN resolved.text
                   ELSE IF i18nOptions.fallback # <<>> THEN i18nOptions.fallback[1]
                   ELSE i18nKey
    IN /\ i18nResult[1].type = "string"
       /\ i18nOptions.values = <<>> => i18nResult[1].text = claimed

\* C13 as stated: in the string t returns, every placeholder is replaced, by its value
\* when the trimmed token is a key of the values map and by the empty string when it is
\* not or when no values map is passed; so the result holds no {{...}} placeholder.
C13_Original ==
  i18nResult # <<>> =>
    LET template == resolveMessage(i18nMessages, i18nKey).text
        values == IF i18nOptions.values = <<>> THEN EmptyMap ELSE i18nOptions.values[1]
        text == i18nResult[1].text
        open == FirstPair(text, "{", 1)
    IN /\ i18nResult[1].type = "string"
       /\ text = ReplaceTokens(template, values)
       /\ open = 0 \/ FirstPair(text, "}", open + 2) = 0

RequestsOfCall(c) == {r \in DOMAIN httpRequests : httpRequests[r].call = c}

\* C15 as stated: each invocation of an api function sends exactly one HTTP request, and
\* either returns that request's parsed payload or rejects with that request's error; a
\* failed request is never sent again.
C15_Original ==
  \A c \in DOMAIN apiCalls :
    /\ Cardinality(RequestsOfCall(c)) = 1
    /\ \A r \in RequestsOfCall(c) :
         /\ apiCalls[c].status = "returned" =>
              httpRequests[r].status = "ok" /\ apiCalls[c].result = httpRequests[r].data
         /\ apiCalls[c].status = "rejected" =>
              httpRequests[r].status = "err" /\ apiCalls[c].result = httpRequests[r].data

\* C15, amended: each invocation of an api function sends exactly one HTTP request, also
\* after that request failed; a call that returns does so on that request's response, with
\* the evaluations field of the payload for getEvaluationHistory, with nothing for
\* triggerEvaluation and with the payload itself for every other function; a call that
\* rejects does so with that request's error.
C15_OneRequestPerCall ==
  \A c \in DOMAIN apiCalls :
    /\ Cardinality(RequestsOfCall(c)) = 1
    /\ \A r \in RequestsOfCall(c) :
         /\ apiCalls[c].status = "returned" =>
              /\ httpRequests[r].status = "ok"
              /\ apiCalls[c].result =
                   (IF apiCalls[c].fn = "getEvaluationHistory"
                    THEN [kind |-> "evaluations", of |-> r]
                    ELSE IF apiCalls[c].fn = "triggerEvaluation"
                         THEN [kind |-> "undefined", of |-> 0]
                         ELSE [kind |-> "payload", of |-> r])
         /\ apiCalls[c].status = "rejected" =>
              /\ httpRequests[r].status = "err"
              /\ apiCalls[c].result = [kind |-> "error", of |-> r]

\* a call of getEvaluationHistory has returned, a call of another function has rejected
C15_Witness ==
  /\ \E c \in DOMAIN apiCalls :
       apiCalls[c].fn = "getEvaluationHistory" /\ apiCalls[c].status = "returned"
  /\ \E c \in DOMAIN apiCalls :
       apiCalls[c].fn = "listChallenges" /\ apiCalls[c].status = "rejected"

\* a step in which the client sends a request
RequestSent == Len(httpRequests') = Len(httpRequests) + 1

\* C16: a request the client sends while local storage holds a locale carries an
\* Accept-Language header equal to the locale stored at that moment, whatever the provider
\* renders and whatever is stored later; a request sent while no locale is stored (no item,
\* or the empty string) carries no Accept-Language header; the header of a request that
\* was sent never changes.
C16_AcceptLanguage ==
  [][/\ RequestSent =>
          LET sent == httpRequests'[Len(httpRequests')] IN
            IF storedLocale # <<>> /\ storedLocale[1] # <<>>
            THEN sent.acceptLanguage = <<storedLocale[1]>>
            ELSE sent.acceptLanguage = <<>>
     /\ \A r \in DOMAIN httpRequests :
          httpRequests'[r].acceptLanguage = httpRequests[r].acceptLanguage]_vars

\* one request went out before anything was stored, without the header, and a later one
\* carries the locale the provider stored in between
C16_Witness ==
  /\ Len(httpRequests) = 2
  /\ httpRequests[1].acceptLanguage = <<>>
  /\ httpRequests[2].acceptLanguage = <<PT>>
  /\ storedAtMount = <<>>

\* C17: once the provider's initialization is complete (its mount effects and the render
\* they cause are done, and the user has not switched language), the locale is the
\* preference stored when the provider mounted if that is a supported locale, otherwise
\* the primary subtag of the browser language if supported, otherwise "en"; and local
\* storage holds that locale, although the persist effect first stored the default.
C17_InitialLocale ==
  (providerPhase = "ready" /\ localeChanges = 0) =>
    /\ locale =
         (IF storedAtMount # <<>> /\ storedAtMount[1] \in {EN, PT}
          THEN storedAtMount[1]
          ELSE IF navigatorLanguage # <<>> /\ PrimarySubtag(navigatorLanguage[1]) \in {EN, PT}
               THEN PrimarySubtag(navigatorLanguage[1])
               ELSE EN)
    /\ storedLocale = <<locale>>

\* "pt" was stored at mount, the browser language is another one, and after the effects
\* and the second render the locale and the stored item are both "pt"
C17_Witness ==
  /\ providerPhase = "ready"
  /\ localeChanges = 0
  /\ storedAtMount = <<PT>>
  /\ navigatorLanguage = <<<<"e", "n", "-", "U", "S">>>>
  /\ pendingLocale = PT
  /\ locale = PT
  /\ storedLocale = <<PT>>

\* the positions in rankReqs' of the requests issued in a step
IssuedInStep == (Len(rankReqs) + 1)..Len(rankReqs')

\* C18: a tick of the registered interval issues a ranking request, and that request
\* targets the challenge selected when the tick fires, also when the selection changed
\* since the interval was registered; no request issued in any step targets another
\* challenge than the one selected after the step.
C18_LatestCallback ==
  [][ /\ (PeriodStep /\ timers >= 1) =>
           /\ IssuedInStep # {}
           /\ \A i \in IssuedInStep : rankReqs'[i].challenge_id = selectedChallengeId
      /\ (Len(rankReqs') > Len(rankReqs)) =>
           \A i \in IssuedInStep : rankReqs'[i].challenge_id = selectedChallengeId' ]_vars

\* polling started once, with challenge 1, whose entries are shown; challenge 2 was
\* selected since, and a tick of the same interval issued a request for challenge 2
C18_Witness ==
  /\ pollStarts = 1
  /\ pollPeriods >= 1
  /\ selectedChallengeId = 2
  /\ EntriesChallenge(rankEntries) = 1
  /\ \E i \in DOMAIN rankReqs : rankReqs[i].challenge_id = 2 /\ rankReqs[i].seq >= 2

\* C19: the ranking is polled only while a challenge is selected.  No interval is
\* registered while selectedChallengeId is empty; every ranking request in flight carries
\* a non-empty challenge id; a step that issues requests leaves a challenge selected, and
\* an interval period that elapses while none is selected issues nothing; when the
\* selection of the mounted page goes from empty to non-empty, one interval is registered
\* and one request for the new selection is issued at once.
C19_PolledWhileSelected ==
  [][ /\ selectedChallengeId = NoSelection => timers = 0
      /\ \A i \in DOMAIN rankReqs' : rankReqs'[i].challenge_id # NoSelection
      /\ (Len(rankReqs') > Len(rankReqs)) => selectedChallengeId' # NoSelection
      /\ (PeriodStep /\ selectedChallengeId = NoSelection) => rankReqs' = rankReqs
      /\ (mounted /\ selectedChallengeId = NoSelection /\ selectedChallengeId' # NoSelection) =>
           /\ timers' = 1
           /\ rankReqs' = Append(rankReqs, [challenge_id |-> selectedChallengeId',
                                             seq |-> pollCalls + 1, status |-> "sent",
                                             response |-> <<>>]) ]_vars

\* an interval period elapsed with nothing selected and nothing was requested; then a
\* challenge was selected, the interval is registered and the first request is out
C19_Witness ==
  /\ idlePeriods >= 1
  /\ pollPeriods = 0
  /\ pollStarts = 1
  /\ selectedChallengeId # NoSelection
  /\ timers = 1
  /\ pollCalls = 1
  /\ Len(rankReqs) = 1
  /\ rankReqs[1].challenge_id = selectedChallengeId

\* the request numbered s is unanswered
Unanswered(s) == \E j \in DOMAIN rankReqs : rankReqs[j].seq = s /\ rankReqs[j].status = "sent"

\* the response to the request numbered s has arrived and its .then has not run
Answered(s) == \E j \in DOMAIN rankReqs : rankReqs[j].seq = s /\ rankReqs[j].status = "ok"

\* C20: a ranking request that never resolves blocks nothing.  While it is unanswered and
\* a challenge stays selected, the interval can still elapse, and a tick issues a new
\* request; the response to a later request replaces rankEntries although the earlier
\* request is unanswered; and once a response has arrived on the mounted page, its
\* entries are eventually the ones shown, unless the page is left first.
C20_HungRequest ==
  /\ []((timers = 1 /\ pollPeriods + idlePeriods < MaxPeriods /\ pollCalls < MaxPolls)
          => ENABLED IntervalElapses)
  /\ [][ /\ (PeriodStep /\ timers = 1 /\ \E s \in 1..MaxPolls : Unanswered(s))
              => Len(rankReqs') = Len(rankReqs) + 1
         /\ \A i \in DOMAIN rankReqs :
              ( /\ Delivered(rankReqs, rankReqs', i, "ok")
                /\ mounted
                /\ \E s \in 1..MaxPolls : s < rankReqs[i].seq /\ Unanswered(s) )
              => (rankEntries' = rankReqs[i].response[1].entries
                  /\ shownSeq' = rankReqs[i].seq) ]_vars
  /\ \A s \in 1..MaxPolls : (mounted /\ Answered(s)) ~> (~mounted \/ shownSeq = s)

\* the first request is still unanswered; a tick issued a second one, and the entries
\* shown are those of its response
C20_Witness ==
  /\ mounted
  /\ Unanswered(1)
  /\ pollPeriods >= 1
  /\ shownSeq = 2
  /\ rankEntries # <<>>

\* the step is the handler named h
StepOf(h) == lastHandler' = h /\ cfgVars' # cfgVars

C22_Original ==
  /\ \A i \in DOMAIN toggleReqs : togglingChallengeId = toggleReqs[i].id
  /\ \A i, j \in DOMAIN toggleReqs : toggleReqs[i].id = toggleReqs[j].id => i = j

\* C23: on the configuration page loading is true exactly while a createChallenge or an
\* addCriteria call is unsettled, and at most one such call is unsettled at any time; a
\* press of either modal's primary button sends a request only when loading was false.
C23_LoadingFlag ==
  /\ [](loading <=> (Len(createReqs) + Len(addReqs) >= 1))
  /\ [](Len(createReqs) + Len(addReqs) <= 1)
  /\ [][(Len(createReqs') > Len(createReqs) \/ Len(addReqs') > Len(addReqs))
          => (~loading /\ loading')]_vars

\* an addCriteria call is unsettled, after a createChallenge call completed and its
\* challenge was listed: loading is true and the challenge modal's button is disabled
C23_Witness ==
  /\ loading
  /\ Len(addReqs) = 1
  /\ createReqs = <<>>
  /\ Len(challenges) = 2
  /\ isCriteriaModalOpen

\* C24: a successful addCriteria response appends the created criterion, whose
\* challenge_id is the id the request was sent for, at the end of the criteria of the
\* challenge with that id and changes no other challenge and no other field, whichever
\* challenge is selected when it arrives; a successful updateChallenge response changes
\* the active flag of its challenge and nothing else; so of an addCriteria and an
\* updateChallenge in flight together neither undoes the other, in either order of
\* arrival.  Every criterion listed under a challenge carries that challenge's id.
C24_NoLostUpdate ==
  /\ [][ /\ \A i \in DOMAIN addReqs :
              Delivered(addReqs, addReqs', i, "ok") =>
                LET created == addReqs[i].response[1] IN
                  /\ created.challenge_id = addReqs[i].challenge_id
                  /\ DOMAIN challenges' = DOMAIN challenges
                  /\ \A k \in DOMAIN challenges :
                       IF challenges[k].id = addReqs[i].challenge_id
                       THEN /\ challenges'[k].criteria = Append(challenges[k].criteria, created)
                            /\ challenges'[k].active = challenges[k].active
                            /\ challenges'[k].id = challenges[k].id
                       ELSE challenges'[k] = challenges[k]
         /\ \A i \in DOMAIN toggleReqs :
              Delivered(toggleReqs, toggleReqs', i, "ok") =>
                /\ DOMAIN challenges' = DOMAIN challenges
                /\ \A k \in DOMAIN challenges :
                     IF challenges[k].id = toggleReqs[i].id
                     THEN /\ challenges'[k].active = toggleReqs[i].active
                          /\ challenges'[k].criteria = challenges[k].criteria
                     ELSE challenges'[k] = challenges[k] ]_vars
  /\ [](\A k \in DOMAIN challenges : \A c \in DOMAIN challenges[k].criteria :
          challenges[k].criteria[c].challenge_id = challenges[k].id)

\* the criterion was requested for challenge 1 and challenge 1 was toggled meanwhile;
\* challenge 2 is the one selected now; challenge 1 shows both the criterion and the
\* new flag, challenge 2 neither
C24_Witness ==
  /\ Len(challenges) = 2
  /\ addReqs = <<>>
  /\ toggleReqs = <<>>
  /\ selectedChallenge # <<>>
  /\ selectedChallenge[1].id = 2
  /\ challenges[1].id = 1
  /\ Len(challenges[1].criteria) = 1
  /\ ~challenges[1].active
  /\ challenges[2].criteria = <<>>
  /\ challenges[2].active

\* the name has a character other than a space
NonBlank(name) == \E c \in DOMAIN name : name[c] # SP

\* C25: in every state of the configuration page every entry of challengeForm.criteria
\* has a name with a character other than white space, so the filter applied at submit
\* keeps the whole list; and no save takes place while the draft's name is empty or
\* white space only: the save button is disabled and the handler returns at once.
C25_NamedCriteria ==
  /\ [](\A k \in DOMAIN challengeForm.criteria : NonBlank(challengeForm.criteria[k].name))
  /\ [](FilterNamed(challengeForm.criteria) = challengeForm.criteria)
  /\ [][ (isDraftCriteriaModalOpen /\ ~NonBlank(draftCriteriaForm.name)) =>
           ~StepOf("handleSaveDraftCriterion") ]_vars

\* the only entry of the list is being edited and its name was replaced by a space: the
\* entry in the list still has its name
C25_Witness ==
  /\ isDraftCriteriaModalOpen
  /\ draftCriteriaIndex = 0
  /\ draftCriteriaForm.name = <<SP>>
  /\ Len(challengeForm.criteria) = 1
  /\ challengeForm.criteria[1].name = <<"a">>

\* C26 as stated: in every state of the configuration page the challenge modal and the
\* draft-criterion editor are not both open, and shouldResumeChallengeModal is true only
\* while the draft editor is open.
C26_Original ==
  /\ ~(isChallengeModalOpen /\ isDraftCriteriaModalOpen)
  /\ shouldResumeChallengeModal => isDraftCriteriaModalOpen

\* C27 as stated: on the mounted rank page isLoading is true whenever a
\* getEvaluationHistory call for the selected repository is unsettled, also when a call
\* made for a repository opened before is unsettled too.
C27_Original ==
  mounted =>
    \A i \in DOMAIN detailReqs :
      detailReqs[i].repository_id = selectedRepositoryId => isLoading

----------------------------------------------------------------------------
\* the home page renders the error message: isLoading ? ... : error ? error : ...
HomeErrorShown == ~homeIsLoading /\ homeError # <<>>

\* C28, second half: after mount the automatic selection of the first challenge
\* makes the fetch effect run at most once more, and no call is in flight once
\* the page has nothing left to do.
C28_FetchTerminates ==
  /\ autoFetches <= 1
  /\ Len(homeReqs) <= 1 + autoFetches + homeSelects

\* C28: on the home page the error message is shown only if the challenge-list
\* request that completed last failed (a later successful request clears it),
\* and the automatic selection triggers at most one additional request.
C28_Original ==
  /\ HomeErrorShown => lastCompleted = "err"
  /\ C28_FetchTerminates

----------------------------------------------------------------------------
\* a step of the rank page that changes the selection from one challenge to another
SelectionSwitched ==
  /\ selectedChallengeId # NoSelection
  /\ selectedChallengeId' # NoSelection
  /\ selectedChallengeId' # selectedChallengeId

\* a step in which the .then of a getRanking call stores the call's entries
ResponseApplied(i) ==
  /\ i \in DOMAIN rankReqs
  /\ rankReqs[i].status = "ok"
  /\ rankReqs' = RemoveAt(rankReqs, i)
  /\ rankEntries' = rankReqs[i].response[1].entries

\* C29: when the rank page's selection changes from one challenge to another, the
\* interval is not restarted, no request is issued at once and rankEntries is not
\* cleared; the entries shown change only when a getRanking response is applied,
\* every request for the new challenge comes from an interval tick, and once the
\* response for the selected challenge is applied the entries are that challenge's.
C29_SwitchKeepsEntries ==
  /\ [][SelectionSwitched =>
          /\ timers' = timers
          /\ pollCalls' = pollCalls
          /\ rankReqs' = rankReqs
          /\ rankEntries' = rankEntries
          /\ savedCallback' = selectedChallengeId']_vars
  /\ [][rankEntries' # rankEntries => \E i \in DOMAIN rankReqs : ResponseApplied(i)]_vars
  /\ [][\A i \in DOMAIN rankReqs :
          (ResponseApplied(i) /\ rankReqs[i].challenge_id = selectedChallengeId)
            => EntriesChallenge(rankEntries') = selectedChallengeId]_vars

\* the selection has moved to another challenge while the entries shown are still the
\* previous challenge's, one interval is registered and no request is in flight
C29_Witness ==
  /\ mounted
  /\ selectedChallengeId # NoSelection
  /\ rankEntries # <<>>
  /\ EntriesChallenge(rankEntries) # selectedChallengeId
  /\ savedCallback = selectedChallengeId
  /\ timers = 1
  /\ rankReqs = <<>>
  /\ ~appliedSinceSelect

----------------------------------------------------------------------------
\* a step of the repositories page of the given kind
RepoStep(kind) == lastRepoStep' = kind /\ repoVars' # repoVars

\* what the repositories page shows and edits
RepoPageState == <<repoChallenge, repositories, repoModalOpen, repoForm>>

\* C30: on the challenge repositories page the load sets challenge and repositories
\* together, and only when both listChallenges and listRepositories succeeded; when
\* either failed neither changes.  A successful addRepository appends exactly the
\* created repository at the end of the list, closes the modal and clears the form;
\* a failed one, or one with a blank name or url, changes nothing and the latter
\* sends no request.
C30_LoadAndAdd ==
  /\ [][RepoStep("loadResolved") =>
          /\ loadData # <<>>
          /\ \A c \in 1..2 : loadData[1][c].status = "ok"
          /\ repoChallenge' = FindChallenge(loadData[1][1].response[1], repoChallengeId)
          /\ repositories' = loadData[1][2].response[1]
          /\ UNCHANGED <<repoModalOpen, repoForm>>]_vars
  /\ [][repoChallenge' # repoChallenge => RepoStep("loadResolved")]_vars
  /\ [][repositories' # repositories
          => RepoStep("loadResolved") \/ RepoStep("addResolved")]_vars
  /\ [][(/\ loadData # <<>>
          /\ \E c \in 1..2 : loadData[1][c].status = "err"
          /\ loadData' = <<>>) => UNCHANGED RepoPageState]_vars
  /\ [][RepoStep("addResolved") =>
          \E i \in DOMAIN addRepoReqs :
            /\ addRepoReqs[i].status = "ok"
            /\ addRepoReqs' = RemoveAt(addRepoReqs, i)
            /\ repositories' = repositories \o <<addRepoReqs[i].response[1]>>
            /\ addRepoReqs[i].response[1].name = addRepoReqs[i].name
            /\ addRepoReqs[i].response[1].url = addRepoReqs[i].url
            /\ repoModalOpen' = FALSE
            /\ repoForm' = EmptyRepoForm
            /\ UNCHANGED repoChallenge]_vars
  /\ [][RepoStep("addRejected") \/ RepoStep("addBlank") => UNCHANGED RepoPageState]_vars
  /\ [][(Trim(repoForm.name) = <<>> \/ Trim(repoForm.url) = <<>>)
          => /\ Len(addRepoReqs') <= Len(addRepoReqs)
             /\ ~RepoStep("addSent")]_vars
  /\ [][RepoStep("addBlank") => UNCHANGED <<addRepoReqs, storedRepositories>>]_vars

\* a created repository was just appended behind the loaded ones of a known challenge
C30_Witness ==
  /\ lastRepoStep = "addResolved"
  /\ repoChallenge # <<>>
  /\ Len(repositories) >= 2
  /\ repositories[Len(repositories)].id = Len(storedRepositories)
  /\ ~repoModalOpen

====
